---------------------------- MODULE Spec2Model ----------------------------
(***************************************************************************)
(* Model of the log scanner and the binary event decoders of pumpfun-sdk:  *)
(*   src/src/common/logs_filters.rs   LogFilter::parse_instruction         *)
(*   src/src/common/logs_parser.rs    parse_create_token_data,             *)
(*                                    parse_trade_data, process_logs       *)
(*   src/src/grpc/mod.rs              process_pumpfun_transaction          *)
(*   src/src/common/logs_subscribe.rs tokens_subscription                  *)
(***************************************************************************)
EXTENDS Integers, Sequences, FiniteSets, TLC

VARIABLES
    \* LogFilter::parse_instruction (logs_filters.rs:11-87)
    pc,                  \* "scan": in the for loop; "dispatch": returned to the
                         \* caller; "panic": a decoder panicked; "idle"
    log,                 \* the loop variable: the line processed last
    lineno,              \* number of lines processed
    bot_wallet,          \* Option<Pubkey>
    invoke_depth, current_instruction, program_data, last_data_len, instructions,
    \* the callers' loops over the returned instructions
    caller, slot, idx, dev_address, events,
    \* history of the scan, read by the properties only
    balance,             \* target invoke markers minus target success markers
    underflow,           \* a success marker came with no open invoke marker
    seen,                \* data strings of the data lines of the current span
    exits,               \* number of 1 -> 0 transitions of invoke_depth
    kindDepth, dataDepth,\* invoke_depth when the line that set the kind /
                         \* the retained payload was processed
    prov,                \* per emitted instruction: kindDepth, dataDepth, exits
    \* a second scan of the same log with extra lines inserted at depth 0
    shadow, inserted,
    \* one call of a decoder
    fn, input, result,
    \* concurrent calls of process_pumpfun_transaction, one per worker
    workers,             \* per worker: its transaction and its place in the call
    scans,               \* the locals of parse_instruction, by stack frame
    devs                 \* the local dev_address, by stack frame

(***************************************************************************)
(* Results of fallible Rust calls.  A Rust panic (an out-of-range slice or *)
(* index) is a third outcome, distinct from Ok and Err; `at` is the source *)
(* line that panics.                                                       *)
(***************************************************************************)
NoVal == [none |-> TRUE]

Ok(v) == [tag |-> "Ok", val |-> v, msg |-> "", at |-> 0]

Err(m) == [tag |-> "Err", val |-> NoVal, msg |-> m, at |-> 0]

Panic(l) == [tag |-> "Panic", val |-> NoVal, msg |-> "range end index out of range", at |-> l]

(***************************************************************************)
(* Bytes and text.  A byte is 0..255.  A base64 text is a sequence of      *)
(* characters: 0..63 is the character of that sextet value, PadChar is     *)
(* '=', BadChar is any character outside the base64 alphabet.              *)
(***************************************************************************)
PadChar == 64

BadChar == 65

Slice(d, from, to) == SubSeq(d, from + 1, to)

Sextet(c) == IF c = PadChar THEN 0 ELSE c

\* base64 STANDARD engine: canonical padding required, no trailing bits.
B64Decode(s) ==
    LET n == Len(s)
        p == IF n >= 2 /\ s[n - 1] = PadChar THEN 2
             ELSE IF n >= 1 /\ s[n] = PadChar THEN 1 ELSE 0
        byteAt(k) ==
            LET g == (k - 1) \div 3
                j == (k - 1) % 3
                a == Sextet(s[4 * g + 1])
                b == Sextet(s[4 * g + 2])
                c == Sextet(s[4 * g + 3])
                e == Sextet(s[4 * g + 4])
            IN  IF j = 0 THEN a * 4 + (b \div 16)
                ELSE IF j = 1 THEN (b % 16) * 16 + (c \div 4)
                ELSE (c % 4) * 64 + e
    IN  IF \E i \in 1..n : s[i] = BadChar THEN Err("Invalid byte")
        ELSE IF n % 4 # 0 THEN Err("Invalid padding")
        ELSE IF \E i \in 1..n : s[i] = PadChar /\ i <= n - p THEN Err("Invalid byte")
        ELSE IF p = 1 /\ s[n - 1] % 4 # 0 THEN Err("Invalid last symbol")
        ELSE IF p = 2 /\ s[n - 2] % 16 # 0 THEN Err("Invalid last symbol")
        ELSE Ok([k \in 1..(3 * (n \div 4) - p) |-> byteAt(k)])

\* A u64 is kept as its four 16-bit words, least significant first (TLC's
\* integers are 32 bits wide); U64(v) is the u64 of a small number v.
U64(v) == <<v % 65536, v \div 65536, 0, 0>>

\* u64::from_le_bytes on a slice of 8 bytes
U64FromLE(b) == [i \in 1..4 |-> b[2 * i - 1] + 256 * b[2 * i]]

\* i64::from_le_bytes: the same 64 bits, read as two's complement
I64FromLE(b) == [negative |-> b[8] >= 128, bits |-> U64FromLE(b)]

\* u32::from_le_bytes(..) as usize.  The value is only ever added to a cursor
\* and compared with a buffer length: every value of 2^24 or more is kept as
\* 2^24, which exceeds every buffer length of the model just the same.
U32FromLE(b) == IF b[4] > 0 THEN 16777216 ELSE b[1] + 256 * (b[2] + 256 * b[3])

\* String::from_utf8 on bytes that are ASCII (< 128) or 0xFF, a byte that
\* no UTF-8 text contains.
Utf8Ok(b) == \A i \in 1..Len(b) : b[i] < 128

(***************************************************************************)
(* parse_trade_data (logs_parser.rs:113-174).  Every slice of `decoded` is *)
(* taken without a length check: the first read that ends past the buffer  *)
(* panics.  TradeReads lists the reads in order: source line and end.      *)
(***************************************************************************)
TradeReads ==
    << <<125, 40>>, <<129, 48>>, <<133, 56>>, <<137, 57>>, <<141, 89>>,
       <<145, 97>>, <<149, 105>>, <<153, 113>>, <<156, 121>>, <<159, 129>> >>

FirstBadRead(reads, n) ==
    LET bad == {i \in 1..Len(reads) : reads[i][2] > n}
    IN  IF bad = {} THEN 0
        ELSE reads[CHOOSE i \in bad : \A j \in bad : i <= j][1]

\* TradeFields taking only the byte 1 for true
TradeFields_IsBuyOne(d) ==
    [slot |-> 0,
     mint |-> Slice(d, 8, 40),
     sol_amount |-> U64FromLE(Slice(d, 40, 48)),
     token_amount |-> U64FromLE(Slice(d, 48, 56)),
     is_buy |-> d[57] = 1,
     user |-> Slice(d, 57, 89),
     timestamp |-> I64FromLE(Slice(d, 89, 97)),
     virtual_sol_reserves |-> U64FromLE(Slice(d, 97, 105)),
     virtual_token_reserves |-> U64FromLE(Slice(d, 105, 113)),
     real_sol_reserves |-> U64FromLE(Slice(d, 113, 121)),
     real_token_reserves |-> U64FromLE(Slice(d, 121, 129))]

\* TradeFields with the two amounts read from each other's place
TradeFields_AmountsSwapped(d) ==
    [slot |-> 0,
     mint |-> Slice(d, 8, 40),
     sol_amount |-> U64FromLE(Slice(d, 48, 56)),
     token_amount |-> U64FromLE(Slice(d, 40, 48)),
     is_buy |-> d[57] # 0,
     user |-> Slice(d, 57, 89),
     timestamp |-> I64FromLE(Slice(d, 89, 97)),
     virtual_sol_reserves |-> U64FromLE(Slice(d, 97, 105)),
     virtual_token_reserves |-> U64FromLE(Slice(d, 105, 113)),
     real_sol_reserves |-> U64FromLE(Slice(d, 113, 121)),
     real_token_reserves |-> U64FromLE(Slice(d, 121, 129))]

TradeFields(d) ==
    [slot |-> 0,
     mint |-> Slice(d, 8, 40),
     sol_amount |-> U64FromLE(Slice(d, 40, 48)),
     token_amount |-> U64FromLE(Slice(d, 48, 56)),
     is_buy |-> d[57] # 0,
     user |-> Slice(d, 57, 89),
     timestamp |-> I64FromLE(Slice(d, 89, 97)),
     virtual_sol_reserves |-> U64FromLE(Slice(d, 97, 105)),
     virtual_token_reserves |-> U64FromLE(Slice(d, 105, 113)),
     real_sol_reserves |-> U64FromLE(Slice(d, 113, 121)),
     real_token_reserves |-> U64FromLE(Slice(d, 121, 129))]

parse_trade_data(data) ==
    LET dec == B64Decode(data)
    IN  IF dec.tag = "Err" THEN Err("Failed to decode base64")
        ELSE LET bad == FirstBadRead(TradeReads, Len(dec.val))
             IN  IF bad # 0 THEN Panic(bad) ELSE Ok(TradeFields(dec.val))

(***************************************************************************)
(* parse_create_token_data (logs_parser.rs:30-105).  The three text fields *)
(* are read by the same three checks (length prefix fits, body fits, body  *)
(* is UTF-8); ReadString is that block, `what` is "name", "symbol" or      *)
(* "URI" ("uri" in the UTF-8 message of the third field).                  *)
(***************************************************************************)
TooShortForLength(what) ==
    CASE what = "name" -> "Data too short for name length"
      [] what = "symbol" -> "Data too short for symbol length"
      [] what = "URI" -> "Data too short for URI length"

TooShortFor(what) ==
    CASE what = "name" -> "Data too short for name"
      [] what = "symbol" -> "Data too short for symbol"
      [] what = "URI" -> "Data too short for URI"

InvalidUtf8In(what) ==
    CASE what = "name" -> "Invalid UTF-8 in name"
      [] what = "symbol" -> "Invalid UTF-8 in symbol"
      [] what = "URI" -> "Invalid UTF-8 in uri"

read_u32(data) == U32FromLE(Slice(data, 0, 4))

\* ReadString slicing the body without the check of lines 45-47
ReadString_BodyUnchecked(decoded, cursor, what) ==
    IF cursor + 4 > Len(decoded) THEN Err(TooShortForLength(what))
    ELSE LET len == read_u32(Slice(decoded, cursor, Len(decoded)))
             c == cursor + 4
         IN  IF c + len > Len(decoded) THEN Panic(48)
             ELSE IF ~Utf8Ok(Slice(decoded, c, c + len)) THEN Err(InvalidUtf8In(what))
             ELSE Ok([text |-> Slice(decoded, c, c + len), cursor |-> c + len])

ReadString(decoded, cursor, what) ==
    IF cursor + 4 > Len(decoded) THEN Err(TooShortForLength(what))
    ELSE LET len == read_u32(Slice(decoded, cursor, Len(decoded)))
             c == cursor + 4
         IN  IF c + len > Len(decoded) THEN Err(TooShortFor(what))
             ELSE IF ~Utf8Ok(Slice(decoded, c, c + len)) THEN Err(InvalidUtf8In(what))
             ELSE Ok([text |-> Slice(decoded, c, c + len), cursor |-> c + len])

CreateFromBytes(decoded) ==
    LET cursor == IF Len(decoded) > 8 THEN 8 ELSE 0
        name == ReadString(decoded, cursor, "name")
    IN  IF name.tag # "Ok" THEN name
        ELSE LET symbol == ReadString(decoded, name.val.cursor, "symbol")
        IN  IF symbol.tag # "Ok" THEN symbol
        ELSE LET uri == ReadString(decoded, symbol.val.cursor, "URI")
        IN  IF uri.tag # "Ok" THEN uri
        ELSE LET c == uri.val.cursor
        IN  IF c + 32 * 3 > Len(decoded) THEN Err("Data too short for public keys")
            ELSE Ok([slot |-> 0,
                     name |-> name.val.text,
                     symbol |-> symbol.val.text,
                     uri |-> uri.val.text,
                     mint |-> Slice(decoded, c, c + 32),
                     bonding_curve |-> Slice(decoded, c + 32, c + 64),
                     user |-> Slice(decoded, c + 64, c + 96)])

parse_create_token_data(data) ==
    LET dec == B64Decode(data)
    IN  IF dec.tag = "Err" THEN Err("Failed to decode base64")
        ELSE CreateFromBytes(dec.val)


(***************************************************************************)
(* EventTrait::from_bytes (logs_data.rs:68-78): try_from_slice of the      *)
(* derived BorshDeserialize.  The fields are read in the order of the      *)
(* struct, `slot` first: a u64 or i64 is 8 little-endian bytes, a bool is  *)
(* one byte that must be 0 or 1, a String is a u32 length and that many    *)
(* UTF-8 bytes, a Pubkey is 32 bytes; a read past the end is an error and  *)
(* so are bytes left over after the last field.                            *)
(***************************************************************************)
UnexpectedLength == "Unexpected length of input"

NotAllBytesRead == "Not all bytes read"

\* the struct of lines 25-38 has the fields of the record parse_trade_data
\* builds, at the same offsets once `slot` has taken the first 8 bytes
TradeInfo_from_bytes(bytes) ==
    IF Len(bytes) < 57 THEN Err(UnexpectedLength)
    ELSE IF bytes[57] > 1 THEN Err("Invalid bool representation")
    ELSE IF Len(bytes) < 129 THEN Err(UnexpectedLength)
    ELSE IF Len(bytes) > 129 THEN Err(NotAllBytesRead)
    ELSE Ok([slot |-> U64FromLE(Slice(bytes, 0, 8)),
             mint |-> Slice(bytes, 8, 40),
             sol_amount |-> U64FromLE(Slice(bytes, 40, 48)),
             token_amount |-> U64FromLE(Slice(bytes, 48, 56)),
             is_buy |-> bytes[57] = 1,
             user |-> Slice(bytes, 57, 89),
             timestamp |-> I64FromLE(Slice(bytes, 89, 97)),
             virtual_sol_reserves |-> U64FromLE(Slice(bytes, 97, 105)),
             virtual_token_reserves |-> U64FromLE(Slice(bytes, 105, 113)),
             real_sol_reserves |-> U64FromLE(Slice(bytes, 113, 121)),
             real_token_reserves |-> U64FromLE(Slice(bytes, 121, 129))])

\* String::deserialize_reader
BorshString(bytes, cursor) ==
    IF cursor + 4 > Len(bytes) THEN Err(UnexpectedLength)
    ELSE LET len == U32FromLE(Slice(bytes, cursor, cursor + 4))
             c == cursor + 4
         IN  IF c + len > Len(bytes) THEN Err(UnexpectedLength)
             ELSE IF ~Utf8Ok(Slice(bytes, c, c + len)) THEN Err("invalid utf-8 sequence")
             ELSE Ok([text |-> Slice(bytes, c, c + len), cursor |-> c + len])

\* the struct of lines 14-23
CreateTokenInfo_from_bytes(bytes) ==
    IF Len(bytes) < 8 THEN Err(UnexpectedLength)
    ELSE LET name == BorshString(bytes, 8)
    IN  IF name.tag # "Ok" THEN name
        ELSE LET symbol == BorshString(bytes, name.val.cursor)
        IN  IF symbol.tag # "Ok" THEN symbol
        ELSE LET uri == BorshString(bytes, symbol.val.cursor)
        IN  IF uri.tag # "Ok" THEN uri
        ELSE LET c == uri.val.cursor
        IN  IF c + 96 > Len(bytes) THEN Err(UnexpectedLength)
            ELSE IF c + 96 < Len(bytes) THEN Err(NotAllBytesRead)
            ELSE Ok([slot |-> U64FromLE(Slice(bytes, 0, 8)),
                     name |-> name.val.text,
                     symbol |-> symbol.val.text,
                     uri |-> uri.val.text,
                     mint |-> Slice(bytes, c, c + 32),
                     bonding_curve |-> Slice(bytes, c + 32, c + 64),
                     user |-> Slice(bytes, c + 64, c + 96)])

(***************************************************************************)
(* Inputs of the decoders.  A payload is what the on-chain program logs:   *)
(* an 8-byte discriminator followed by the record, base64-encoded.  The    *)
(* builders below enumerate such payloads and their truncations.           *)
(***************************************************************************)
RECURSIVE ToLE(_, _)
ToLE(v, k) == IF k = 0 THEN <<>> ELSE <<v % 256>> \o ToLE(v \div 256, k - 1)

\* u64::to_le_bytes, i64::to_le_bytes
U64ToLE(w) ==
    [i \in 1..8 |-> IF i % 2 = 1 THEN w[(i + 1) \div 2] % 256 ELSE w[i \div 2] \div 256]

I64(v) == [negative |-> FALSE, bits |-> U64(v)]

I64ToLE(t) == U64ToLE(t.bits)

B64Encode(b) ==
    LET n == Len(b)
        at(i) == IF i <= n THEN b[i] ELSE 0
        charAt(k) ==
            LET g == (k - 1) \div 4
                j == (k - 1) % 4
                x == at(3 * g + 1)
                y == at(3 * g + 2)
                z == at(3 * g + 3)
            IN  IF j = 0 THEN x \div 4
                ELSE IF j = 1 THEN (x % 4) * 16 + (y \div 16)
                ELSE IF j = 2 THEN (IF 3 * g + 2 > n THEN PadChar ELSE (y % 16) * 4 + (z \div 64))
                ELSE (IF 3 * g + 3 > n THEN PadChar ELSE z % 64)
    IN  [k \in 1..(4 * ((n + 2) \div 3)) |-> charAt(k)]

Take(b, n) == SubSeq(b, 1, IF n < Len(b) THEN n ELSE Len(b))

Key(k) == [i \in 1..32 |-> k]

Discriminator == <<24, 30, 200, 40, 5, 28, 7, 119>>

ZeroPrefix == [i \in 1..8 |-> 0]

TradeBytes(prefix, t) ==
    prefix \o t.mint \o U64ToLE(t.sol_amount) \o U64ToLE(t.token_amount)
        \o <<IF t.is_buy THEN 1 ELSE 0>> \o t.user \o I64ToLE(t.timestamp)
        \o U64ToLE(t.virtual_sol_reserves) \o U64ToLE(t.virtual_token_reserves)
        \o U64ToLE(t.real_sol_reserves) \o U64ToLE(t.real_token_reserves)

CreateBytes(prefix, c) ==
    prefix \o ToLE(Len(c.name), 4) \o c.name \o ToLE(Len(c.symbol), 4) \o c.symbol
        \o ToLE(Len(c.uri), 4) \o c.uri \o c.mint \o c.bonding_curve \o c.user

(***************************************************************************)
(* Unsigned integer arithmetic of the pricing functions                    *)
(* (pumpfun/common.rs:171-207).  A number is the sequence of its base-256  *)
(* digits, least significant first; a u64 has 8 digits and a u128 has 16.  *)
(* Big* are the operations on numbers of any length; Add, Sub, Mul and Div *)
(* are Rust's +, -, * and / on a type of `width` digits: a result that     *)
(* does not fit the type panics in a build with overflow checks (the       *)
(* default of debug builds) and wraps in a build without them (the default *)
(* of release builds).                                                     *)
(***************************************************************************)
Overflow(l) == [tag |-> "Panic", val |-> NoVal, msg |-> "arithmetic overflow", at |-> l]

BigDigit(a, i) == IF i <= Len(a) THEN a[i] ELSE 0

LongerLen(a, b) == IF Len(a) > Len(b) THEN Len(a) ELSE Len(b)

\* a without its leading zero digits
BigTrim(a) ==
    LET nz == {i \in 1..Len(a) : a[i] # 0}
    IN  IF nz = {} THEN <<>>
        ELSE SubSeq(a, 1, CHOOSE i \in nz : \A j \in nz : j <= i)

BigOf(v) == BigTrim(ToLE(v, 4))

\* a <= b: no digit of a exceeds b's with all the digits above it equal
BigLeq(a, b) ==
    LET n == LongerLen(a, b)
    IN  ~\E i \in 1..n :
            /\ BigDigit(a, i) > BigDigit(b, i)
            /\ \A k \in (i + 1)..n : BigDigit(a, k) = BigDigit(b, k)

BigEq(a, b) == BigTrim(a) = BigTrim(b)

\* a + b in a base: the carry into digit i is 1 when a digit below it
\* overflows and every digit between the two is base - 1
DigitsAdd(a, b, base) ==
    IF a = <<>> THEN BigTrim(b)
    ELSE IF b = <<>> THEN BigTrim(a)
    ELSE LET n == LongerLen(a, b) + 1
             s == [i \in 1..n |-> BigDigit(a, i) + BigDigit(b, i)]
             carry(i) == IF \E j \in 1..(i - 1) :
                                /\ s[j] >= base
                                /\ \A k \in (j + 1)..(i - 1) : s[k] = base - 1
                         THEN 1 ELSE 0
         IN  BigTrim([i \in 1..n |-> (s[i] + carry(i)) % base])

BigAdd(a, b) == DigitsAdd(a, b, 256)

\* a - b, for b <= a: digit i borrows when a digit below it is less than
\* b's and the digits between the two are equal
BigSub(a, b) ==
    IF a = <<>> \/ b = <<>> THEN BigTrim(a)
    ELSE LET borrow(i) == IF \E j \in 1..(i - 1) :
                                 /\ a[j] < BigDigit(b, j)
                                 /\ \A k \in (j + 1)..(i - 1) : a[k] = BigDigit(b, k)
                          THEN 1 ELSE 0
         IN  BigTrim([i \in 1..Len(a) |->
                         (a[i] - BigDigit(b, i) - borrow(i) + 256) % 256])

RECURSIVE SeqSum(_, _, _)
SeqSum(s, lo, hi) ==
    IF lo > hi THEN 0
    ELSE IF lo = hi THEN s[lo]
    ELSE LET mid == (lo + hi) \div 2
         IN  SeqSum(s, lo, mid) + SeqSum(s, mid + 1, hi)

\* a * b in a base (at most 256): column k sums the products of the digits
\* i of a and k + 1 - i of b, a sum below base^3 whose three digits are
\* added at the columns k, k + 1 and k + 2
DigitsMul(a, b, base) ==
    IF a = <<>> \/ b = <<>> THEN <<>>
    ELSE
    LET n == Len(a) + Len(b)
        col == [k \in 1..n |->
                  SeqSum([i \in 1..Len(a) |->
                             IF k + 1 - i >= 1 /\ k + 1 - i <= Len(b)
                             THEN a[i] * b[k + 1 - i] ELSE 0], 1, Len(a))]
        p0 == [k \in 1..n |-> col[k] % base]
        p1 == [k \in 1..n |-> IF k < 2 THEN 0 ELSE (col[k - 1] \div base) % base]
        p2 == [k \in 1..n |-> IF k < 3 THEN 0 ELSE col[k - 2] \div (base * base)]
    IN  DigitsAdd(DigitsAdd(p0, p1, base), p2, base)

BigMul(a, b) == DigitsMul(BigTrim(a), BigTrim(b), 256)

\* a * k, for one digit k
BigMulDigit(a, k) == BigMul(a, <<k>>)

\* the largest digit k with d * k <= r, for r < 256 * d: its upper half h is
\* the number of multiples of 16 * d that fit in r, its lower half the
\* number of further multiples of d that fit
BigQuotientDigit(d, r) ==
    LET h == Cardinality({j \in 1..15 : BigLeq(BigMulDigit(d, 16 * j), r)})
    IN  16 * h + Cardinality({j \in 1..15 : BigLeq(BigMulDigit(d, 16 * h + j), r)})

\* long division of the digits i, i-1, .. 1 of n by d # 0; r is the
\* remainder of the digits above i.  The digits of the quotient come out
\* most significant first.
RECURSIVE BigDivFrom(_, _, _, _)
BigDivFrom(n, d, i, r) ==
    IF i = 0 THEN <<>>
    ELSE IF r = <<>> /\ n[i] = 0 THEN <<0>> \o BigDivFrom(n, d, i - 1, <<>>)
    ELSE LET r1 == BigTrim(<<n[i]>> \o r)
             k == BigQuotientDigit(d, r1)
         IN  <<k>> \o BigDivFrom(n, d, i - 1, BigSub(r1, BigMulDigit(d, k)))

Reverse(s) == [i \in 1..Len(s) |-> s[Len(s) + 1 - i]]

\* n \div d.  The digits of n above the length of d are less than d: they
\* are the first remainder, and the quotient has no digit for them.
BigDiv(n, d) ==
    LET num == BigTrim(n)
        den == BigTrim(d)
        i == Len(num) - Len(den) + 1
    IN  IF i < 1 THEN <<>>
        ELSE BigTrim(Reverse(BigDivFrom(num, den, i, SubSeq(num, i + 1, Len(num)))))

BigMin(a, b) == IF BigLeq(a, b) THEN BigTrim(a) ELSE BigTrim(b)

\* the `width` low digits of a: the value a wraps to
Wrap(a, width) == SubSeq(a \o [i \in 1..width |-> 0], 1, width)

Fits(a, width) == Len(BigTrim(a)) <= width

\* 2^(8 * width) + a - b, for a < b: the value a - b wraps to
WrapNeg(a, b, width) ==
    Wrap(BigSub(BigAdd([i \in 1..(width + 1) |-> IF i = width + 1 THEN 1 ELSE 0], a), b), width)

Add(a, b, width, overflow_checks, l) ==
    LET t == BigAdd(a, b)
    IN  IF ~Fits(t, width) /\ overflow_checks THEN Overflow(l) ELSE Ok(Wrap(t, width))

Sub(a, b, width, overflow_checks, l) ==
    IF BigLeq(b, a) THEN Ok(Wrap(BigSub(a, b), width))
    ELSE IF overflow_checks THEN Overflow(l)
    ELSE Ok(WrapNeg(a, b, width))

Mul(a, b, width, overflow_checks, l) ==
    LET t == BigMul(a, b)
    IN  IF ~Fits(t, width) /\ overflow_checks THEN Overflow(l) ELSE Ok(Wrap(t, width))

\* a division by zero panics in every build
Div(a, b, width, l) ==
    IF BigTrim(b) = <<>> THEN Overflow(l) ELSE Ok(Wrap(BigDiv(a, b), width))

\* `x as u128` of a u64 (kept as its four words), and `x as u64` of a u128
AsU128(w) == Wrap(U64ToLE(w), 16)

AsU64(a) == U64FromLE(Wrap(a, 8))

\* constants::trade::DEFAULT_SLIPPAGE, 30%
DEFAULT_SLIPPAGE == U64(3000)

\* common.rs:185-197
get_buy_price(amount, trade_info, overflow_checks) ==
    IF amount = U64(0) THEN Ok(U64(0))
    ELSE LET n == Mul(AsU128(trade_info.virtual_sol_reserves),
                      AsU128(trade_info.virtual_token_reserves), 16, overflow_checks, 190)
             i == Add(AsU128(trade_info.virtual_sol_reserves), AsU128(amount), 16,
                      overflow_checks, 191)
         IN  IF n.tag # "Ok" THEN n
             ELSE IF i.tag # "Ok" THEN i
             ELSE LET q == Div(n.val, i.val, 16, 192)
         IN  IF q.tag # "Ok" THEN q
             ELSE LET r == Add(q.val, BigOf(1), 16, overflow_checks, 192)
         IN  IF r.tag # "Ok" THEN r
             ELSE LET s == Sub(AsU128(trade_info.virtual_token_reserves), r.val, 16,
                               overflow_checks, 193)
         IN  IF s.tag # "Ok" THEN s
             ELSE LET s_u64 == AsU64(s.val)
                  IN  Ok(IF BigLeq(U64ToLE(s_u64), U64ToLE(trade_info.real_token_reserves))
                         THEN s_u64 ELSE trade_info.real_token_reserves)

\* (amount * basis_points) / 10000 in u64, at source line l
SlippageOf(amount, basis_points, overflow_checks, l) ==
    LET p == Mul(U64ToLE(amount), U64ToLE(basis_points), 8, overflow_checks, l)
    IN  IF p.tag # "Ok" THEN p ELSE Div(p.val, BigOf(10000), 8, l)

\* the u64 a function returns, or the panic that pre-empted it
U64Result(t) == IF t.tag # "Ok" THEN t ELSE Ok(U64FromLE(t.val))

\* common.rs:200-202
calculate_with_slippage_buy(amount, basis_points, overflow_checks) ==
    LET q == SlippageOf(amount, basis_points, overflow_checks, 201)
    IN  IF q.tag # "Ok" THEN q
        ELSE U64Result(Add(U64ToLE(amount), q.val, 8, overflow_checks, 201))

\* common.rs:205-207
calculate_with_slippage_sell(amount, basis_points, overflow_checks) ==
    LET q == SlippageOf(amount, basis_points, overflow_checks, 206)
    IN  IF q.tag # "Ok" THEN q
        ELSE U64Result(Sub(U64ToLE(amount), q.val, 8, overflow_checks, 206))

\* common.rs:172-175; slippage_basis_points is an Option<u64>
get_buy_amount_with_slippage(amount_sol, slippage_basis_points, overflow_checks) ==
    LET slippage == IF slippage_basis_points.some THEN slippage_basis_points.key
                    ELSE DEFAULT_SLIPPAGE
        q == SlippageOf(amount_sol, slippage, overflow_checks, 174)
    IN  IF q.tag # "Ok" THEN q
        ELSE U64Result(Add(U64ToLE(amount_sol), q.val, 8, overflow_checks, 174))

(***************************************************************************)
(* The encoders: Create::data (instruction/mod.rs:44-81), which builds the *)
(* data of the create instruction, and the Borsh serialization that        *)
(* CreateTokenInfo derives (logs_data.rs:14-23).                           *)
(***************************************************************************)
\* the base58 alphabet, as ASCII codes: "123456789ABC...xyz"
Base58Alphabet ==
    <<49, 50, 51, 52, 53, 54, 55, 56, 57, 65, 66, 67, 68, 69, 70, 71, 72,
      74, 75, 76, 77, 78, 80, 81, 82, 83, 84, 85, 86, 87, 88, 89, 90, 97,
      98, 99, 100, 101, 102, 103, 104, 105, 106, 107, 109, 110, 111, 112,
      113, 114, 115, 116, 117, 118, 119, 120, 121, 122>>

\* 256^n in base 58, least significant digit first (256 = 4 * 58 + 24)
RECURSIVE Base58Pow256(_)
Base58Pow256(n) ==
    IF n = 1 THEN <<24, 4>>
    ELSE LET h == Base58Pow256(n \div 2)
             sq == DigitsMul(h, h, 58)
         IN  IF n % 2 = 0 THEN sq ELSE DigitsMul(sq, <<24, 4>>, 58)

\* the base58 digits, least significant first, of the big-endian number
\* b[lo..hi]: those of its upper half times 256^(bytes of the lower half),
\* plus those of the lower half
RECURSIVE Base58Digits(_, _, _)
Base58Digits(b, lo, hi) ==
    IF lo = hi THEN BigTrim(<<b[lo] % 58, b[lo] \div 58>>)
    ELSE LET mid == (lo + hi) \div 2
             upper == Base58Digits(b, lo, mid)
             lower == Base58Digits(b, mid + 1, hi)
         IN  DigitsAdd(DigitsMul(upper, Base58Pow256(hi - mid), 58), lower, 58)

LeadingZeros(b) == Cardinality({i \in 1..Len(b) : \A j \in 1..i : b[j] = 0})

\* Pubkey::to_string().as_bytes(): one '1' per leading zero byte, then the
\* base58 digits of the bytes read as a big-endian number, most significant
\* first
Base58Encode(b) ==
    LET digits == Base58Digits(b, 1, Len(b))
    IN  [i \in 1..LeadingZeros(b) |-> Base58Alphabet[1]]
            \o [i \in 1..Len(digits) |-> Base58Alphabet[digits[Len(digits) + 1 - i] + 1]]

\* Create::data without the discriminator of line 59
Create_data_NoDiscriminator(c) ==
    LET payer_bytes == Base58Encode(c.payer_pubkey)
    IN  ToLE(Len(c._name), 4) \o c._name
            \o ToLE(Len(c._symbol), 4) \o c._symbol
            \o ToLE(Len(c._uri), 4) \o c._uri
            \o ToLE(Len(payer_bytes), 4) \o payer_bytes

\* instruction/mod.rs:45-80
Create_data(c) ==
    LET payer_bytes == Base58Encode(c.payer_pubkey)
    IN  Discriminator
            \o ToLE(Len(c._name), 4) \o c._name
            \o ToLE(Len(c._symbol), 4) \o c._symbol
            \o ToLE(Len(c._uri), 4) \o c._uri
            \o ToLE(Len(payer_bytes), 4) \o payer_bytes

\* borsh::to_vec of a CreateTokenInfo (derived, logs_data.rs:14): the fields
\* in declaration order, u64 little-endian, String as u32 length and bytes,
\* Pubkey as its 32 bytes
CreateTokenInfo_serialize(c) ==
    ToLE(c.slot, 8)
        \o ToLE(Len(c.name), 4) \o c.name
        \o ToLE(Len(c.symbol), 4) \o c.symbol
        \o ToLE(Len(c.uri), 4) \o c.uri
        \o c.mint \o c.bonding_curve \o c.user

(***************************************************************************)
(* Log lines.  A line is one of the texts the runtime writes:              *)
(*   "Program <prog> invoke [k]", "Program <prog> success",                *)
(*   "Program log: <words>", "Program data: <data>".                       *)
(* The scanner looks at a line only through the tests below.               *)
(***************************************************************************)
PROGRAM_ID == "6EF8rrecthR5Dkzon8Nwu78hRvfCKubJ14M5uBEwF6P"

OtherProgram == "TokenkegQfeZyiNwAJbNbGKPFXCWuBvf9Ss623VQ5DA"

InvokeLine(prog) == [shape |-> "invoke", prog |-> prog, words |-> <<>>, data |-> <<>>]

SuccessLine(prog) == [shape |-> "success", prog |-> prog, words |-> <<>>, data |-> <<>>]

LogLine(words) == [shape |-> "log", prog |-> "", words |-> words, data |-> <<>>]

DataLine(d) == [shape |-> "data", prog |-> "", words |-> <<>>, data |-> d]

\* log.contains(&format!("Program {} invoke", Self::PROGRAM_ID))
ContainsInvoke(l) == l.shape = "invoke" /\ l.prog = PROGRAM_ID

\* log.contains(&format!("Program {} success", Self::PROGRAM_ID))
ContainsSuccess(l) == l.shape = "success" /\ l.prog = PROGRAM_ID

\* log.contains("Program log: Instruction:")
ContainsInstruction(l) ==
    l.shape = "log" /\ Len(l.words) >= 1 /\ l.words[1] = "Instruction:"

\* log.contains(word), for a word of a "Program log: " line
ContainsWord(l, word) == l.shape = "log" /\ \E i \in 1..Len(l.words) : l.words[i] = word

\* log.starts_with("Program data: ")
StartsWithData(l) == l.shape = "data"

(***************************************************************************)
(* One iteration of the for loop of parse_instruction, on the scanner      *)
(* state s = [invoke_depth, current_instruction, program_data,             *)
(* last_data_len, instructions, panicked].                                 *)
(***************************************************************************)
None == [some |-> FALSE, key |-> <<>>]

Some(k) == [some |-> TRUE, key |-> k]

\* Pubkey::to_string: the base58 text of the 32 bytes (one text per key)
PubkeyToString(k) == <<"base58", k>>

Scanner0 ==
    [invoke_depth |-> 0, current_instruction |-> "none", program_data |-> <<>>,
     last_data_len |-> 0, instructions |-> <<>>, panicked |-> FALSE]

\* OnInvoke without the reset of lines 22-24
OnInvoke_NoReset(s) == [s EXCEPT !.invoke_depth = @ + 1]

\* lines 20-26
OnInvoke(s) ==
    LET d == s.invoke_depth + 1
    IN  IF d = 1
        THEN [s EXCEPT !.invoke_depth = d, !.current_instruction = "none",
                       !.program_data = <<>>, !.last_data_len = 0]
        ELSE [s EXCEPT !.invoke_depth = d]

\* SetInstruction with two separate tests, the second one not under an else
SetInstruction_Independent(s, l) ==
    LET s1 == IF ContainsWord(l, "Create")
              THEN [s EXCEPT !.current_instruction = "create"] ELSE s
    IN  IF ContainsWord(l, "Buy") \/ ContainsWord(l, "Sell")
        THEN [s1 EXCEPT !.current_instruction = "trade"] ELSE s1

\* lines 36-40
SetInstruction(s, l) ==
    IF ContainsWord(l, "Create") THEN [s EXCEPT !.current_instruction = "create"]
    ELSE IF ContainsWord(l, "Buy") \/ ContainsWord(l, "Sell")
         THEN [s EXCEPT !.current_instruction = "trade"]
    ELSE s

\* CollectData keeping the last data line instead of the longest
CollectData_LastWins(s, l) ==
    IF StartsWithData(l)
    THEN [s EXCEPT !.program_data = l.data, !.last_data_len = Len(l.data)]
    ELSE s

\* CollectData looking at data lines of the outermost call only
CollectData_OutermostOnly(s, l) ==
    IF s.invoke_depth = 1 /\ StartsWithData(l) /\ Len(l.data) > s.last_data_len
    THEN [s EXCEPT !.program_data = l.data, !.last_data_len = Len(l.data)]
    ELSE s

\* lines 45-51
CollectData(s, l) ==
    IF StartsWithData(l) /\ Len(l.data) > s.last_data_len
    THEN [s EXCEPT !.program_data = l.data, !.last_data_len = Len(l.data)]
    ELSE s

\* TradeInstruction with the comparison of lines 68-69 left out: a trade is
\* the bot's as soon as a bot wallet is configured
TradeInstruction_AnyUserIsBot(trade_info, bw) ==
    IF bw.some
    THEN [type |-> "BotTrade", info |-> trade_info]
    ELSE [type |-> "UserTrade", info |-> trade_info]

\* lines 67-75
TradeInstruction(trade_info, bw) ==
    IF bw.some /\ PubkeyToString(trade_info.user) = PubkeyToString(bw.key)
    THEN [type |-> "BotTrade", info |-> trade_info]
    ELSE [type |-> "UserTrade", info |-> trade_info]

\* Decode putting the new instruction in front of the list
Decode_Prepend(s, bw) ==
    IF s.current_instruction = "none" \/ s.program_data = <<>> THEN s
    ELSE IF s.current_instruction = "create"
    THEN LET r == parse_create_token_data(s.program_data)
         IN  IF r.tag = "Ok"
             THEN [s EXCEPT !.instructions = <<[type |-> "CreateToken", info |-> r.val]>> \o @]
             ELSE s
    ELSE LET r == parse_trade_data(s.program_data)
         IN  IF r.tag = "Ok"
             THEN [s EXCEPT !.instructions = <<TradeInstruction(r.val, bw)>> \o @]
             ELSE IF r.tag = "Panic" THEN [s EXCEPT !.panicked = TRUE]
             ELSE s

\* lines 57-81
Decode(s, bw) ==
    IF s.current_instruction = "none" \/ s.program_data = <<>> THEN s
    ELSE IF s.current_instruction = "create"
    THEN LET r == parse_create_token_data(s.program_data)
         IN  IF r.tag = "Ok"
             THEN [s EXCEPT !.instructions = Append(@, [type |-> "CreateToken", info |-> r.val])]
             ELSE s
    ELSE LET r == parse_trade_data(s.program_data)
         IN  IF r.tag = "Ok"
             THEN [s EXCEPT !.instructions = Append(@, TradeInstruction(r.val, bw))]
             ELSE IF r.tag = "Panic" THEN [s EXCEPT !.panicked = TRUE]
             ELSE s

\* OnSuccess with the nested case forgotten: only a success at depth 1 counts
OnSuccess_TopLevelOnly(s, bw) ==
    IF s.invoke_depth = 1 THEN Decode([s EXCEPT !.invoke_depth = 0], bw) ELSE s

\* OnSuccess decoding at every target success line, whatever the depth left
OnSuccess_DecodeAtEveryExit(s, bw) == Decode([s EXCEPT !.invoke_depth = @ - 1], bw)

\* lines 54-83
OnSuccess(s, bw) ==
    LET s1 == [s EXCEPT !.invoke_depth = @ - 1]
    IN  IF s1.invoke_depth = 0 THEN Decode(s1, bw) ELSE s1

\* ParseLine reading the "Instruction:" marker at every depth
ParseLine_MarkerAtAnyDepth(s, l, bw) ==
    IF ContainsInvoke(l) THEN OnInvoke(s)
    ELSE IF s.invoke_depth = 0 THEN s
    ELSE IF ContainsInstruction(l) THEN SetInstruction(s, l)
    ELSE LET s1 == CollectData(s, l)
         IN  IF ContainsSuccess(l) THEN OnSuccess(s1, bw) ELSE s1

\* ParseLine without the "skip if not in our program" test of lines 30-32
ParseLine_NoSkip(s, l, bw) ==
    IF ContainsInvoke(l) THEN OnInvoke(s)
    ELSE IF s.invoke_depth = 1 /\ ContainsInstruction(l) THEN SetInstruction(s, l)
    ELSE LET s1 == CollectData(s, l)
         IN  IF ContainsSuccess(l) THEN OnSuccess(s1, bw) ELSE s1

\* lines 17-84
ParseLine(s, l, bw) ==
    IF ContainsInvoke(l) THEN OnInvoke(s)
    ELSE IF s.invoke_depth = 0 THEN s
    ELSE IF s.invoke_depth = 1 /\ ContainsInstruction(l) THEN SetInstruction(s, l)
    ELSE LET s1 == CollectData(s, l)
         IN  IF ContainsSuccess(l) THEN OnSuccess(s1, bw) ELSE s1

(***************************************************************************)
(* The logs and parameters the model runs on.                              *)
(***************************************************************************)
MaxLines == 6

MaxNoise == 1

MaxLongLines == 8

TradeA ==
    [slot |-> 0, mint |-> Key(9), sol_amount |-> U64(1000000), token_amount |-> U64(5),
     is_buy |-> TRUE, user |-> Key(1), timestamp |-> I64(1700000000),
     virtual_sol_reserves |-> U64(30), virtual_token_reserves |-> U64(1073),
     real_sol_reserves |-> U64(2), real_token_reserves |-> U64(793)]

TradeB == [TradeA EXCEPT !.user = Key(2), !.is_buy = FALSE, !.sol_amount = U64(77)]

\* name "ABC", symbol "X", uri "http://u"
CreateA ==
    [slot |-> 0, name |-> <<65, 66, 67>>, symbol |-> <<88>>,
     uri |-> <<104, 116, 116, 112, 58, 47, 47, 117>>,
     mint |-> Key(9), bonding_curve |-> Key(8), user |-> Key(1)]

TradePayloadA == B64Encode(TradeBytes(Discriminator, TradeA))

TradePayloadB == B64Encode(TradeBytes(Discriminator, TradeB))

CreatePayloadA == B64Encode(CreateBytes(Discriminator, CreateA))

\* 20 characters: valid base64 of 15 bytes
Short20 == B64Encode([i \in 1..15 |-> 7])

\* 10 characters: no base64 text has this length
Short10 == [i \in 1..10 |-> 1]

\* longer than every valid payload, with a character outside the alphabet
LongBad == [i \in 1..176 |-> IF i = 1 THEN BadChar ELSE 0]

Payloads == {TradePayloadA, TradePayloadB, CreatePayloadA, Short20, Short10, LongBad}

Lines ==
    {InvokeLine(PROGRAM_ID), InvokeLine(OtherProgram),
     SuccessLine(PROGRAM_ID), SuccessLine(OtherProgram),
     LogLine(<<"Instruction:", "Create">>), LogLine(<<"Instruction:", "Buy">>),
     LogLine(<<"Instruction:", "Sell">>), LogLine(<<"Instruction:", "Transfer">>)}
        \cup {DataLine(d) : d \in Payloads}

\* fewer kinds of lines, for logs long enough to hold several invocations
LongLines ==
    {InvokeLine(PROGRAM_ID), SuccessLine(PROGRAM_ID), SuccessLine(OtherProgram),
     LogLine(<<"Instruction:", "Create">>), LogLine(<<"Instruction:", "Buy">>),
     DataLine(TradePayloadA), DataLine(TradePayloadB), DataLine(CreatePayloadA),
     DataLine(Short20)}

BotWallets == {None, Some(Key(2))}

Slots == {7, 8}

Callers == {"grpc", "ws", "process_logs"}

NoLine == LogLine(<<>>)

NoResult == [tag |-> "None", val |-> NoVal, msg |-> "", at |-> 0]

scanVars ==
    <<pc, log, lineno, bot_wallet, invoke_depth, current_instruction, program_data,
      last_data_len, instructions>>

callerVars == <<caller, slot, idx, dev_address, events>>

historyVars == <<balance, underflow, seen, exits, kindDepth, dataDepth, prov>>

shadowVars == <<shadow, inserted>>

decoderVars == <<fn, input, result>>

workerVars == <<workers, scans, devs>>

vars == <<scanVars, callerVars, historyVars, shadowVars, decoderVars, workerVars>>

St ==
    [invoke_depth |-> invoke_depth, current_instruction |-> current_instruction,
     program_data |-> program_data, last_data_len |-> last_data_len,
     instructions |-> instructions, panicked |-> pc = "panic"]

IsTargetInvoke(l) == l.shape = "invoke" /\ l.prog = PROGRAM_ID

IsTargetSuccess(l) == l.shape = "success" /\ l.prog = PROGRAM_ID

ScanIdle ==
    /\ log = NoLine /\ lineno = 0 /\ bot_wallet = None
    /\ invoke_depth = 0 /\ current_instruction = "none" /\ program_data = <<>>
    /\ last_data_len = 0 /\ instructions = <<>>
    /\ caller = "none" /\ slot = 0 /\ idx = 0 /\ dev_address = None /\ events = <<>>
    /\ balance = 0 /\ underflow = FALSE /\ seen = {} /\ exits = 0
    /\ kindDepth = 0 /\ dataDepth = 0 /\ prov = <<>>
    /\ shadow = Scanner0 /\ inserted = 0

DecoderIdle == fn = "none" /\ input = <<>> /\ result = NoResult

WorkersIdle == workers = <<>> /\ scans = <<>> /\ devs = <<>>

\* parse_instruction is entered: lines 12-16
Init ==
    /\ pc = "scan" /\ log = NoLine /\ lineno = 0
    /\ bot_wallet \in BotWallets
    /\ invoke_depth = 0 /\ current_instruction = "none" /\ program_data = <<>>
    /\ last_data_len = 0 /\ instructions = <<>>
    /\ caller = "none" /\ slot = 0 /\ idx = 0 /\ dev_address = None /\ events = <<>>
    /\ balance = 0 /\ underflow = FALSE /\ seen = {} /\ exits = 0
    /\ kindDepth = 0 /\ dataDepth = 0 /\ prov = <<>>
    /\ shadow = Scanner0 /\ inserted = 0
    /\ DecoderIdle
    /\ WorkersIdle

\* one iteration of the for loop, lines 17-84
ScanStep(lines, max) ==
    /\ pc = "scan" /\ lineno < max
    /\ \E l \in lines :
        LET s2 == ParseLine(St, l, bot_wallet)
            balance2 == balance + (IF IsTargetInvoke(l) THEN 1 ELSE 0)
                                - (IF IsTargetSuccess(l) THEN 1 ELSE 0)
            exits2 == IF invoke_depth = 1 /\ s2.invoke_depth = 0 THEN exits + 1 ELSE exits
            kindDepth2 == IF s2.current_instruction = current_instruction
                          THEN kindDepth ELSE invoke_depth
            dataDepth2 == IF s2.program_data = program_data
                          THEN dataDepth ELSE invoke_depth
        IN  /\ log' = l
            /\ lineno' = lineno + 1
            /\ invoke_depth' = s2.invoke_depth
            /\ current_instruction' = s2.current_instruction
            /\ program_data' = s2.program_data
            /\ last_data_len' = s2.last_data_len
            /\ instructions' = s2.instructions
            /\ pc' = IF s2.panicked THEN "panic" ELSE "scan"
            /\ balance' = balance2
            /\ underflow' = (underflow \/ balance2 < 0)
            /\ seen' = IF IsTargetInvoke(l) /\ invoke_depth = 0 THEN {}
                       ELSE IF l.shape = "data" /\ invoke_depth >= 1 THEN seen \cup {l.data}
                       ELSE seen
            /\ exits' = exits2
            /\ kindDepth' = kindDepth2
            /\ dataDepth' = dataDepth2
            /\ prov' = IF Len(s2.instructions) > Len(instructions)
                       THEN Append(prov, [kindDepth |-> kindDepth2, dataDepth |-> dataDepth2,
                                          span |-> exits2])
                       ELSE prov
            /\ shadow' = ParseLine(shadow, l, bot_wallet)
    /\ UNCHANGED <<bot_wallet, callerVars, inserted, decoderVars, workerVars>>

ScanLine == ScanStep(Lines, MaxLines)

\* the second scan alone reads one more line, which is no target invoke
\* marker, at a place where invoke_depth is 0
InsertNoise ==
    /\ pc = "scan" /\ inserted < MaxNoise /\ invoke_depth = 0
    /\ \E l \in Lines :
        /\ ~IsTargetInvoke(l)
        /\ shadow' = ParseLine(shadow, l, bot_wallet)
    /\ inserted' = inserted + 1
    /\ UNCHANGED <<scanVars, callerVars, historyVars, decoderVars, workerVars>>

\* line 86: Ok(instructions) goes back to one of the three callers; the
\* locals of the scan are dropped, and the caller starts its loop
Return ==
    /\ pc = "scan"
    /\ pc' = "dispatch"
    /\ caller' \in Callers
    /\ slot' \in Slots
    /\ log' = NoLine /\ lineno' = 0
    /\ invoke_depth' = 0 /\ current_instruction' = "none" /\ program_data' = <<>>
    /\ last_data_len' = 0
    /\ balance' = 0 /\ underflow' = FALSE /\ seen' = {} /\ exits' = 0
    /\ kindDepth' = 0 /\ dataDepth' = 0
    /\ shadow' = [Scanner0 EXCEPT !.instructions = shadow.instructions]
    /\ inserted' = 0
    /\ UNCHANGED <<bot_wallet, instructions, prov, idx, dev_address, events, decoderVars, workerVars>>

\* An event handed to the callback: PumpfunEvent::<type>(info)
Event(type, info) == [type |-> type, info |-> info]

\* GrpcMatch keeping the first creator: dev_address is set only while None
GrpcMatch_FirstCreateWins(instruction, dev, s) ==
    LET stamped == [instruction.info EXCEPT !.slot = s]
    IN  CASE instruction.type = "CreateToken" ->
               [dev_address |-> IF dev = None THEN Some(stamped.user) ELSE dev,
                events |-> <<Event("NewToken", stamped)>>]
          [] instruction.type = "UserTrade" ->
               [dev_address |-> dev,
                events |-> <<Event(IF Some(stamped.user) = dev
                                   THEN "NewDevTrade" ELSE "NewUserTrade", stamped)>>]
          [] instruction.type = "BotTrade" ->
               [dev_address |-> dev, events |-> <<Event("NewBotTrade", stamped)>>]
          [] OTHER -> [dev_address |-> dev, events |-> <<>>]

\* GrpcMatch sending the bot's trades through the test of line 288 as well
GrpcMatch_BotTradeCompared(instruction, dev, s) ==
    LET stamped == [instruction.info EXCEPT !.slot = s]
    IN  CASE instruction.type = "CreateToken" ->
               [dev_address |-> Some(stamped.user),
                events |-> <<Event("NewToken", stamped)>>]
          [] instruction.type = "UserTrade" ->
               [dev_address |-> dev,
                events |-> <<Event(IF Some(stamped.user) = dev
                                   THEN "NewDevTrade" ELSE "NewUserTrade", stamped)>>]
          [] instruction.type = "BotTrade" ->
               [dev_address |-> dev,
                events |-> <<Event(IF Some(stamped.user) = dev
                                   THEN "NewDevTrade" ELSE "NewBotTrade", stamped)>>]
          [] OTHER -> [dev_address |-> dev, events |-> <<>>]

\* grpc/mod.rs:280-299, the match on one instruction: the new value of
\* dev_address and the callbacks made, for the transaction's slot s
GrpcMatch(instruction, dev, s) ==
    LET stamped == [instruction.info EXCEPT !.slot = s]
    IN  CASE instruction.type = "CreateToken" ->
               [dev_address |-> Some(stamped.user),
                events |-> <<Event("NewToken", stamped)>>]
          [] instruction.type = "UserTrade" ->
               [dev_address |-> dev,
                events |-> <<Event(IF Some(stamped.user) = dev
                                   THEN "NewDevTrade" ELSE "NewUserTrade", stamped)>>]
          [] instruction.type = "BotTrade" ->
               [dev_address |-> dev, events |-> <<Event("NewBotTrade", stamped)>>]
          [] OTHER -> [dev_address |-> dev, events |-> <<>>]

\* logs_subscribe.rs:73-84, the match on one instruction: the callbacks made
WsMatch(instruction) ==
    CASE instruction.type = "CreateToken" -> <<Event("NewToken", instruction.info)>>
      [] instruction.type = "UserTrade" -> <<Event("NewUserTrade", instruction.info)>>
      [] instruction.type = "BotTrade" -> <<Event("NewBotTrade", instruction.info)>>
      [] OTHER -> <<>>

\* grpc/mod.rs:279-300, one iteration of the loop over the instructions
DispatchGrpc ==
    /\ pc = "dispatch" /\ caller = "grpc" /\ idx < Len(instructions)
    /\ LET r == GrpcMatch(instructions[idx + 1], dev_address, slot)
       IN  /\ dev_address' = r.dev_address
           /\ events' = events \o r.events
    /\ idx' = idx + 1
    /\ UNCHANGED <<scanVars, caller, slot, historyVars, shadowVars, decoderVars, workerVars>>

\* logs_subscribe.rs:72-85, one iteration of the loop over the instructions
DispatchWs ==
    /\ pc = "dispatch" /\ caller = "ws" /\ idx < Len(instructions)
    /\ events' = events \o WsMatch(instructions[idx + 1])
    /\ idx' = idx + 1
    /\ UNCHANGED <<scanVars, caller, slot, dev_address, historyVars, shadowVars, decoderVars, workerVars>>

\* logs_parser.rs:23-25, one iteration of the loop over the instructions
DispatchLogs ==
    /\ pc = "dispatch" /\ caller = "process_logs" /\ idx < Len(instructions)
    /\ events' = Append(events, instructions[idx + 1])
    /\ idx' = idx + 1
    /\ UNCHANGED <<scanVars, caller, slot, dev_address, historyVars, shadowVars, decoderVars, workerVars>>

Next == ScanLine \/ InsertNoise \/ Return \/ DispatchGrpc \/ DispatchWs \/ DispatchLogs

Spec == Init /\ [][Next]_vars

\* the same program on longer logs made of fewer kinds of lines
ScanLong == ScanStep(LongLines, MaxLongLines)

NextLong == ScanLong \/ Return \/ DispatchGrpc \/ DispatchWs \/ DispatchLogs

SpecLong == Init /\ [][NextLong]_vars

\* logs whose "Instruction:" lines name one instruction or two
MaxKindLines == 5

KindLines ==
    {InvokeLine(PROGRAM_ID), SuccessLine(PROGRAM_ID),
     LogLine(<<"Instruction:", "Create">>), LogLine(<<"Instruction:", "Buy">>),
     LogLine(<<"Instruction:", "Sell">>), LogLine(<<"Instruction:", "Transfer">>),
     LogLine(<<"Instruction:", "Create", "Buy">>),
     LogLine(<<"Instruction:", "Sell", "Create">>),
     DataLine(TradePayloadA), DataLine(CreatePayloadA)}

ScanKinds == ScanStep(KindLines, MaxKindLines)

NextKinds == ScanKinds \/ Return \/ DispatchGrpc \/ DispatchWs \/ DispatchLogs

SpecKinds == Init /\ [][NextKinds]_vars

(***************************************************************************)
(* The callers' loops on whole transactions.  The log of a transaction is  *)
(* a sequence of top-level invocations of the program, each one the four   *)
(* lines invoke, "Instruction: <word>", data, success; the instructions    *)
(* the loops run over are what parse_instruction returns for that log.     *)
(***************************************************************************)
RECURSIVE ScanFrom(_, _, _, _)
ScanFrom(s, logs, i, bw) ==
    IF i > Len(logs) \/ s.panicked THEN s
    ELSE ScanFrom(ParseLine(s, logs[i], bw), logs, i + 1, bw)

\* logs_filters.rs:11-87; a panic of parse_trade_data (lines 113-174 of
\* logs_parser.rs) unwinds through the call
parse_instruction(logs, bw) ==
    LET s == ScanFrom(Scanner0, logs, 1, bw)
    IN  IF s.panicked THEN Panic(113) ELSE Ok(s.instructions)

MaxInvocations == 3

CreateB == [CreateA EXCEPT !.mint = Key(7), !.bonding_curve = Key(6), !.user = Key(2)]

CreatePayloadB == B64Encode(CreateBytes(Discriminator, CreateB))

InvocationLog(word, payload) ==
    <<InvokeLine(PROGRAM_ID), LogLine(<<"Instruction:", word>>), DataLine(payload),
      SuccessLine(PROGRAM_ID)>>

Invocations ==
    {InvocationLog("Create", CreatePayloadA), InvocationLog("Create", CreatePayloadB),
     InvocationLog("Buy", TradePayloadA), InvocationLog("Sell", TradePayloadB)}

RECURSIVE Flatten(_)
Flatten(ss) == IF ss = <<>> THEN <<>> ELSE Head(ss) \o Flatten(Tail(ss))

TxLogs == {Flatten(ss) : ss \in UNION {[1..k -> Invocations] : k \in 0..MaxInvocations}}

\* parse_instruction has returned to the gRPC or to the websocket loop
InitTx ==
    /\ pc = "dispatch" /\ log = NoLine /\ lineno = 0
    /\ bot_wallet \in BotWallets
    /\ invoke_depth = 0 /\ current_instruction = "none" /\ program_data = <<>>
    /\ last_data_len = 0
    /\ \E logs \in TxLogs : instructions = parse_instruction(logs, bot_wallet).val
    /\ caller \in {"grpc", "ws"} /\ slot \in Slots
    /\ idx = 0 /\ dev_address = None /\ events = <<>>
    /\ balance = 0 /\ underflow = FALSE /\ seen = {} /\ exits = 0
    /\ kindDepth = 0 /\ dataDepth = 0 /\ prov = <<>>
    /\ shadow = Scanner0 /\ inserted = 0
    /\ DecoderIdle
    /\ WorkersIdle

NextTx == DispatchGrpc \/ DispatchWs

SpecTx == InitTx /\ [][NextTx]_vars

(***************************************************************************)
(* Concurrent calls.  Each worker runs process_pumpfun_transaction on its  *)
(* own transaction; the steps of the workers interleave in any order.  The *)
(* locals of a call live in the stack frame of the call: ScanCell(w) and   *)
(* DevCell(w) name the frame in which worker w keeps the locals of         *)
(* parse_instruction and dev_address.                                      *)
(***************************************************************************)
Workers == {1, 2}

WorkerSlots == <<7, 8>>

MaxWorkerInvocations == 2

WorkerInvocations ==
    <<InvocationLog("Create", CreatePayloadA), InvocationLog("Create", CreatePayloadB),
      InvocationLog("Buy", TradePayloadA)>>

\* a transaction is kept as the numbers of its invocations; Logs(tx) are its lines
WorkerTxs == [1..MaxWorkerInvocations -> 1..Len(WorkerInvocations)]

Logs(tx) == Flatten([i \in 1..Len(tx) |-> WorkerInvocations[tx[i]]])

\* logs_filters.rs:12-16: `let mut` locals of the call
ScanCell(w) == w

\* dev_address kept in one place for all calls, as a static would be
DevCell_Shared(w) == 1

\* grpc/mod.rs:277: `let mut dev_address`, a local of the call
DevCell(w) == w

\* the events one call delivers when it runs alone
RECURSIVE MatchAll(_, _, _, _)
MatchAll(ins, i, dev, s) ==
    IF i > Len(ins) THEN <<>>
    ELSE LET r == GrpcMatch(ins[i], dev, s)
         IN  r.events \o MatchAll(ins, i + 1, r.dev_address, s)

process_pumpfun_transaction(logs, bw, s) == MatchAll(parse_instruction(logs, bw).val, 1, None, s)

InitWorkers ==
    /\ pc = "idle" /\ log = NoLine /\ lineno = 0
    /\ bot_wallet = None
    /\ invoke_depth = 0 /\ current_instruction = "none" /\ program_data = <<>>
    /\ last_data_len = 0 /\ instructions = <<>>
    /\ caller = "none" /\ slot = 0 /\ idx = 0 /\ dev_address = None /\ events = <<>>
    /\ balance = 0 /\ underflow = FALSE /\ seen = {} /\ exits = 0
    /\ kindDepth = 0 /\ dataDepth = 0 /\ prov = <<>>
    /\ shadow = Scanner0 /\ inserted = 0
    /\ DecoderIdle
    /\ \E txs \in [Workers -> WorkerTxs] :
         workers = [w \in Workers |->
                      [pc |-> "start", tx |-> txs[w], slot |-> WorkerSlots[w], pos |-> 0,
                       idx |-> 0, events |-> <<>>,
                       alone |-> process_pumpfun_transaction(Logs(txs[w]), bot_wallet,
                                                             WorkerSlots[w])]]
    /\ scans = [c \in Workers |-> Scanner0]
    /\ devs = [c \in Workers |-> None]

singleVars == <<scanVars, callerVars, historyVars, shadowVars, decoderVars>>

\* grpc/mod.rs:277 and logs_filters.rs:12-16: the locals are initialised
WorkerEnter(w) ==
    /\ workers[w].pc = "start"
    /\ devs' = [devs EXCEPT ![DevCell(w)] = None]
    /\ scans' = [scans EXCEPT ![ScanCell(w)] = Scanner0]
    /\ workers' = [workers EXCEPT ![w].pc = "scan"]
    /\ UNCHANGED singleVars

\* logs_filters.rs:17-84: one iteration of the for loop
WorkerScan(w) ==
    /\ workers[w].pc = "scan" /\ workers[w].pos < Len(Logs(workers[w].tx))
    /\ LET s2 == ParseLine(scans[ScanCell(w)], Logs(workers[w].tx)[workers[w].pos + 1], bot_wallet)
       IN  /\ scans' = [scans EXCEPT ![ScanCell(w)] = s2]
           /\ workers' = [workers EXCEPT ![w].pos = @ + 1,
                                         ![w].pc = IF s2.panicked THEN "panic" ELSE "scan"]
    /\ UNCHANGED <<singleVars, devs>>

\* logs_filters.rs:86 and grpc/mod.rs:278: the instructions are returned
WorkerReturn(w) ==
    /\ workers[w].pc = "scan" /\ workers[w].pos = Len(Logs(workers[w].tx))
    /\ workers' = [workers EXCEPT ![w].pc = "loop"]
    /\ UNCHANGED <<singleVars, scans, devs>>

\* grpc/mod.rs:279-300: one iteration of the loop over the instructions
WorkerDispatch(w) ==
    /\ workers[w].pc = "loop"
    /\ workers[w].idx < Len(scans[ScanCell(w)].instructions)
    /\ LET r == GrpcMatch(scans[ScanCell(w)].instructions[workers[w].idx + 1],
                          devs[DevCell(w)], workers[w].slot)
       IN  /\ devs' = [devs EXCEPT ![DevCell(w)] = r.dev_address]
           /\ workers' = [workers EXCEPT ![w].idx = @ + 1, ![w].events = @ \o r.events]
    /\ UNCHANGED <<singleVars, scans>>

\* grpc/mod.rs:302: Ok(())
WorkerDone(w) ==
    /\ workers[w].pc = "loop"
    /\ workers[w].idx = Len(scans[ScanCell(w)].instructions)
    /\ workers' = [workers EXCEPT ![w].pc = "done"]
    /\ UNCHANGED <<singleVars, scans, devs>>

NextWorkers ==
    \E w \in Workers :
        WorkerEnter(w) \/ WorkerScan(w) \/ WorkerReturn(w) \/ WorkerDispatch(w) \/ WorkerDone(w)

SpecWorkers == InitWorkers /\ [][NextWorkers]_vars

(***************************************************************************)
(* The decoders alone: one call of parse_trade_data or of                  *)
(* parse_create_token_data on a payload, a truncation of a payload, or a   *)
(* text that is no base64.                                                 *)
(***************************************************************************)
MaxExtra == 2

ExtraBytes == [i \in 1..MaxExtra |-> 170]

CreateSamples ==
    {[CreateA EXCEPT !.name = nm, !.symbol = sy, !.uri = u] :
        nm \in {<<>>, CreateA.name, <<66, 255>>},
        sy \in {<<>>, CreateA.symbol, <<255>>},
        u \in {CreateA.uri, <<255, 47>>}}

Truncations(b) == {Take(b, len) : len \in 0..Len(b)}

TradeBuffers ==
    UNION {Truncations(TradeBytes(Discriminator, t) \o ExtraBytes) : t \in {TradeA, TradeB}}

CreateBuffers ==
    UNION {Truncations(CreateBytes(pre, c) \o ExtraBytes) :
             pre \in {ZeroPrefix, Discriminator}, c \in CreateSamples}

\* whole trade buffers: either prefix, any byte as the flag, with or without
\* bytes after the record
TradeLayoutBuffers ==
    {[TradeBytes(pre, t) \o ext EXCEPT ![57] = flag] :
        pre \in {ZeroPrefix, Discriminator}, t \in {TradeA, TradeB},
        ext \in {<<>>, ExtraBytes}, flag \in {0, 1, 2}}

DecoderInputs ==
    {B64Encode(b) : b \in TradeBuffers \cup TradeLayoutBuffers \cup CreateBuffers}
        \cup {Short10, LongBad}

InitDecode ==
    /\ pc = "idle" /\ ScanIdle /\ WorkersIdle
    /\ fn \in {"parse_trade_data", "parse_create_token_data"}
    /\ input \in DecoderInputs
    /\ result = NoResult

ParseTrade ==
    /\ fn = "parse_trade_data" /\ result = NoResult
    /\ result' = parse_trade_data(input)
    /\ UNCHANGED <<scanVars, callerVars, historyVars, shadowVars, fn, input, workerVars>>

ParseCreate ==
    /\ fn = "parse_create_token_data" /\ result = NoResult
    /\ result' = parse_create_token_data(input)
    /\ UNCHANGED <<scanVars, callerVars, historyVars, shadowVars, fn, input, workerVars>>

NextDecode == ParseTrade \/ ParseCreate

SpecDecode == InitDecode /\ [][NextDecode]_vars

(***************************************************************************)
(* The pricing functions alone: one call of get_buy_price or of a slippage *)
(* function, in a build with or without overflow checks.                   *)
(***************************************************************************)
U64_MAX == <<65535, 65535, 65535, 65535>>

\* 0, 1, 1_000_000_000 (one SOL in lamports), 1_844_674_407_370_956 (the
\* least amount whose product with 10000 exceeds u64::MAX), u64::MAX
Amounts == {U64(0), U64(1), U64(1000000000), <<4300, 47815, 36280, 6>>, U64_MAX}

\* 0, 1, 3000 (the default), 10000 (100%), 10001, u64::MAX
BasisPoints == {U64(0), U64(1), DEFAULT_SLIPPAGE, U64(10000), U64(10001), U64_MAX}

\* virtual SOL reserves: 0, 1, 30_000_000_000 (a new curve), u64::MAX
VirtualSol == {U64(0), U64(1), <<44032, 64547, 6, 0>>, U64_MAX}

\* virtual token reserves: 0, 1, 1_073_000_000_000_000 (a new curve), u64::MAX
VirtualToken == {U64(0), U64(1), <<4096, 18392, 53219, 3>>, U64_MAX}

\* real token reserves: 0, 793_100_000_000_000 (a new curve), u64::MAX
RealToken == {U64(0), <<30720, 64453, 53585, 2>>, U64_MAX}

PriceTrades ==
    {[TradeA EXCEPT !.virtual_sol_reserves = vs, !.virtual_token_reserves = vt,
                    !.real_token_reserves = rt] :
        vs \in VirtualSol, vt \in VirtualToken, rt \in RealToken}

InitPrice ==
    /\ pc = "idle" /\ ScanIdle /\ WorkersIdle
    /\ result = NoResult
    /\ \/ /\ fn = "get_buy_price"
          /\ input \in [amount : Amounts, trade_info : PriceTrades, overflow_checks : BOOLEAN]
       \/ /\ fn \in {"calculate_with_slippage_buy", "calculate_with_slippage_sell"}
          /\ input \in [amount : Amounts, basis_points : BasisPoints, overflow_checks : BOOLEAN]
       \/ /\ fn = "get_buy_amount_with_slippage"
          /\ input \in [amount_sol : Amounts,
                        slippage_basis_points : {None} \cup {Some(b) : b \in BasisPoints},
                        overflow_checks : BOOLEAN]

GetBuyPrice ==
    /\ fn = "get_buy_price" /\ result = NoResult
    /\ result' = get_buy_price(input.amount, input.trade_info, input.overflow_checks)
    /\ UNCHANGED <<scanVars, callerVars, historyVars, shadowVars, fn, input, workerVars>>

SlippageBuy ==
    /\ fn = "calculate_with_slippage_buy" /\ result = NoResult
    /\ result' = calculate_with_slippage_buy(input.amount, input.basis_points,
                                             input.overflow_checks)
    /\ UNCHANGED <<scanVars, callerVars, historyVars, shadowVars, fn, input, workerVars>>

SlippageSell ==
    /\ fn = "calculate_with_slippage_sell" /\ result = NoResult
    /\ result' = calculate_with_slippage_sell(input.amount, input.basis_points,
                                              input.overflow_checks)
    /\ UNCHANGED <<scanVars, callerVars, historyVars, shadowVars, fn, input, workerVars>>

BuyAmountWithSlippage ==
    /\ fn = "get_buy_amount_with_slippage" /\ result = NoResult
    /\ result' = get_buy_amount_with_slippage(input.amount_sol, input.slippage_basis_points,
                                              input.overflow_checks)
    /\ UNCHANGED <<scanVars, callerVars, historyVars, shadowVars, fn, input, workerVars>>

NextPrice == GetBuyPrice \/ SlippageBuy \/ SlippageSell \/ BuyAmountWithSlippage

SpecPrice == InitPrice /\ [][NextPrice]_vars

(***************************************************************************)
(* Encoding and decoding: a create instruction, or a CreateTokenInfo       *)
(* record, is encoded, carried as base64 text and handed to                *)
(* parse_create_token_data.                                                *)
(***************************************************************************)
\* ASCII texts: "", "ABC", "T", "Token"
RoundTripNames == {<<>>, CreateA.name, <<84>>, <<84, 111, 107, 101, 110>>}

\* "", "X", "ABCD"
RoundTripSymbols == {<<>>, CreateA.symbol, <<65, 66, 67, 68>>}

\* "", "http://u"
RoundTripUris == {<<>>, CreateA.uri}

\* keys whose base58 text has 32 characters (the all-zero key) and 43
RoundTripKeys == {Key(0), Key(1), Key(2)}

RoundTripSlots == {0, 7}

InitRoundTrip ==
    /\ pc = "idle" /\ ScanIdle /\ WorkersIdle
    /\ result = NoResult
    /\ \/ /\ fn = "Create::data"
          /\ input \in [_name : RoundTripNames, _symbol : RoundTripSymbols,
                        _uri : RoundTripUris, payer_pubkey : RoundTripKeys]
       \/ /\ fn = "CreateTokenInfo::serialize"
          /\ input \in [slot : RoundTripSlots, name : RoundTripNames,
                        symbol : RoundTripSymbols, uri : RoundTripUris,
                        mint : {Key(9)}, bonding_curve : {Key(8)},
                        user : {Key(1), Key(2)}]

EncodeInstruction ==
    /\ fn = "Create::data" /\ result = NoResult
    /\ result' = parse_create_token_data(B64Encode(Create_data(input)))
    /\ UNCHANGED <<scanVars, callerVars, historyVars, shadowVars, fn, input, workerVars>>

EncodeRecord ==
    /\ fn = "CreateTokenInfo::serialize" /\ result = NoResult
    /\ result' = parse_create_token_data(B64Encode(CreateTokenInfo_serialize(input)))
    /\ UNCHANGED <<scanVars, callerVars, historyVars, shadowVars, fn, input, workerVars>>

NextRoundTrip == EncodeInstruction \/ EncodeRecord

SpecRoundTrip == InitRoundTrip /\ [][NextRoundTrip]_vars

(***************************************************************************)
(* The two decoders of one record side by side: the cursor decoder of      *)
(* logs_parser.rs on a buffer b, as parse_instruction calls it, and the    *)
(* struct decoder of logs_data.rs on b[8..], as PumpfunEvent::parse_logs    *)
(* calls it (logs_events.rs:39-50).  `input` is b, `result` holds the two  *)
(* outcomes.                                                               *)
(***************************************************************************)
PathRecords == {"trade", "create"}

\* buffers of 8 bytes or more: a discriminator and a record in the struct's
\* layout or in the cursor decoder's, cut at every length
PathBuffers(record) ==
    LET whole == IF record = "trade"
                 THEN UNION {{Discriminator \o TradeBytes(ZeroPrefix, t),
                              TradeBytes(Discriminator, t)} : t \in {TradeA, TradeB}}
                 ELSE UNION {{Discriminator \o CreateTokenInfo_serialize(c),
                              CreateBytes(Discriminator, c)} :
                                c \in {CreateA, [CreateA EXCEPT !.name = <<>>]}}
    IN  UNION {{Take(b, len) : len \in 8..Len(b)} : b \in whole}

InitPaths ==
    /\ pc = "idle" /\ ScanIdle /\ WorkersIdle
    /\ fn \in PathRecords
    /\ input \in PathBuffers(fn)
    /\ result = [manual |-> NoResult, struct |-> NoResult]

\* logs_filters.rs:59 and 66 on the base64 text of b
ManualPath ==
    /\ fn \in PathRecords /\ result.manual = NoResult
    /\ result' = [result EXCEPT !.manual =
                    IF fn = "trade" THEN parse_trade_data(B64Encode(input))
                    ELSE parse_create_token_data(B64Encode(input))]
    /\ UNCHANGED <<scanVars, callerVars, historyVars, shadowVars, fn, input, workerVars>>

\* logs_events.rs:39-50 on b
StructPath ==
    /\ fn \in PathRecords /\ result.struct = NoResult
    /\ result' = [result EXCEPT !.struct =
                    LET slice == Slice(input, 8, Len(input))
                    IN  IF fn = "trade" THEN TradeInfo_from_bytes(slice)
                        ELSE CreateTokenInfo_from_bytes(slice)]
    /\ UNCHANGED <<scanVars, callerVars, historyVars, shadowVars, fn, input, workerVars>>

NextPaths == ManualPath \/ StructPath

SpecPaths == InitPaths /\ [][NextPaths]_vars

(***************************************************************************)
(* The two scanners of logs_events.rs.  Both walk the log from its last    *)
(* line to its first; `input` is the log, `lineno` the number of lines     *)
(* read, `log` the line read last, `result` what the scanner holds.        *)
(***************************************************************************)
\* a line with the text "ray_log: " followed by d
RayLogLine(d) == [shape |-> "ray_log", prog |-> "", words |-> <<>>, data |-> d]

\* the group of the regex ray_log: (?P<base64>[A-Za-z0-9+/=]+), that is the
\* characters of the alphabet that follow "ray_log: ", up to the first other
\* character.  No match without at least one.
RayCaptured(l) ==
    LET bad == {i \in 1..Len(l.data) : l.data[i] = BadChar}
    IN  IF bad = {} THEN l.data
        ELSE SubSeq(l.data, 1, (CHOOSE i \in bad : \A j \in bad : i <= j) - 1)

RayMatches(l) == l.shape = "ray_log" /\ RayCaptured(l) # <<>>

UnwrapPanic(line) ==
    [Panic(line) EXCEPT !.msg = "called Result::unwrap() on an Err value"]

SlicePanic(line) == [Panic(line) EXCEPT !.msg = "range start index 8 out of range"]

NoEvents == [create_info |-> NoVal, trade_info |-> NoVal]

\* the body of the loop of PumpfunEvent::parse_logs with the two is_none
\* tests left out: every decodable line overwrites
PumpfunEvent_parse_line_NoGuard(acc, l) ==
    IF ~StartsWithData(l) THEN Ok(acc)
    ELSE LET dec == B64Decode(l.data)
         IN  IF dec.tag # "Ok" THEN UnwrapPanic(39)
             ELSE IF Len(dec.val) < 8 THEN SlicePanic(40)
             ELSE LET slice == Slice(dec.val, 8, Len(dec.val))
                      c == CreateTokenInfo_from_bytes(slice)
                      t == TradeInfo_from_bytes(slice)
                  IN  IF c.tag = "Ok" THEN Ok([acc EXCEPT !.create_info = c.val])
                      ELSE IF t.tag = "Ok" THEN Ok([acc EXCEPT !.trade_info = t.val])
                      ELSE Ok(acc)

\* logs_events.rs:38-54, the body of the loop of PumpfunEvent::parse_logs
PumpfunEvent_parse_line(acc, l) ==
    IF ~StartsWithData(l) THEN Ok(acc)
    ELSE LET dec == B64Decode(l.data)
         IN  IF dec.tag # "Ok" THEN UnwrapPanic(39)
             ELSE IF Len(dec.val) < 8 THEN SlicePanic(40)
             ELSE LET slice == Slice(dec.val, 8, Len(dec.val))
                      c == CreateTokenInfo_from_bytes(slice)
                      t == TradeInfo_from_bytes(slice)
                  IN  IF acc.create_info = NoVal /\ c.tag = "Ok"
                      THEN Ok([acc EXCEPT !.create_info = c.val])
                      ELSE IF acc.trade_info = NoVal /\ t.tag = "Ok"
                      THEN Ok([acc EXCEPT !.trade_info = t.val])
                      ELSE Ok(acc)

\* logs_events.rs:72-83, the body of the loop of RaydiumEvent::parse_logs,
\* for T = TradeInfo
RaydiumEvent_parse_line(event, l) ==
    IF ~RayMatches(l) THEN Ok(event)
    ELSE LET dec == B64Decode(RayCaptured(l))
         IN  IF dec.tag # "Ok" THEN UnwrapPanic(76)
             ELSE LET e == TradeInfo_from_bytes(dec.val)
                  IN  IF e.tag = "Ok" THEN Ok(e.val) ELSE Ok(event)

MaxEventLines == 3

\* payloads of the struct layout, slot first, after a discriminator
EventPayload(bytes) == B64Encode(Discriminator \o bytes)

EventTradeA == EventPayload(TradeBytes(ZeroPrefix, TradeA))

EventTradeB == EventPayload(TradeBytes(ZeroPrefix, TradeB))

EventCreateA == EventPayload(CreateTokenInfo_serialize(CreateA))

EventCreateB == EventPayload(CreateTokenInfo_serialize([CreateA EXCEPT !.user = Key(2)]))

\* 129 bytes that are a token creation (texts of 13 bytes in all) and, read
\* as a trade, have the flag byte 1
EventBoth ==
    EventPayload(CreateTokenInfo_serialize(
        [CreateA EXCEPT !.name = <<65, 66, 67, 68>>, !.mint = Key(1)]))

\* valid base64 of 4 bytes
EventShort == B64Encode(<<1, 2, 3, 4>>)

PumpfunLogLines ==
    {DataLine(d) : d \in {EventTradeA, EventTradeB, EventCreateA, EventCreateB,
                          EventBoth, EventShort, Short10}}
        \cup {LogLine(<<"Instruction:", "Buy">>)}

RayTradeA == B64Encode(TradeBytes(ZeroPrefix, TradeA))

RayTradeB == B64Encode(TradeBytes(ZeroPrefix, TradeB))

RaydiumLogLines ==
    {RayLogLine(d) : d \in {RayTradeA, RayTradeB, RayTradeB \o <<BadChar, 1>>,
                            EventShort, Short10, <<BadChar>>}}
        \cup {LogLine(<<"Instruction:", "Buy">>)}

LogsOf(lines) == UNION {[1..n -> lines] : n \in 0..MaxEventLines}

InitEvents ==
    /\ pc = "events" /\ ScanIdle /\ WorkersIdle
    /\ \/ /\ fn = "PumpfunEvent::parse_logs"
          /\ input \in LogsOf(PumpfunLogLines)
          /\ result = NoEvents
       \/ /\ fn = "RaydiumEvent::parse_logs"
          /\ input \in LogsOf(RaydiumLogLines)
          /\ result = NoVal

\* one iteration of the loop over logs_iter.rev(), logs_events.rs:37-55
PumpfunLine ==
    /\ pc = "events" /\ fn = "PumpfunEvent::parse_logs" /\ lineno < Len(input)
    /\ LET l == input[Len(input) - lineno]
           r == PumpfunEvent_parse_line(result, l)
       IN  /\ log' = l
           /\ lineno' = lineno + 1
           /\ pc' = IF r.tag = "Panic" THEN "panic" ELSE "events"
           /\ result' = IF r.tag = "Panic" THEN result ELSE r.val
    /\ UNCHANGED <<bot_wallet, invoke_depth, current_instruction, program_data,
                   last_data_len, instructions, callerVars, historyVars, shadowVars,
                   fn, input, workerVars>>

\* one iteration of the loop over logs_iter.rev(), logs_events.rs:71-84
RaydiumLine ==
    /\ pc = "events" /\ fn = "RaydiumEvent::parse_logs" /\ lineno < Len(input)
    /\ LET l == input[Len(input) - lineno]
           r == RaydiumEvent_parse_line(result, l)
       IN  /\ log' = l
           /\ lineno' = lineno + 1
           /\ pc' = IF r.tag = "Panic" THEN "panic" ELSE "events"
           /\ result' = IF r.tag = "Panic" THEN result ELSE r.val
    /\ UNCHANGED <<bot_wallet, invoke_depth, current_instruction, program_data,
                   last_data_len, instructions, callerVars, historyVars, shadowVars,
                   fn, input, workerVars>>

\* logs_events.rs:57 and 86
EventsReturn ==
    /\ pc = "events" /\ lineno = Len(input)
    /\ pc' = "returned"
    /\ UNCHANGED <<log, lineno, bot_wallet, invoke_depth, current_instruction,
                   program_data, last_data_len, instructions, callerVars, historyVars,
                   shadowVars, decoderVars, workerVars>>

NextEvents == PumpfunLine \/ RaydiumLine \/ EventsReturn

SpecEvents == InitEvents /\ [][NextEvents]_vars

(***************************************************************************)
(* Properties.  ScanStepTaken is a step of the for loop; log' is the line  *)
(* it processes, the unprimed variables are the state before the line.     *)
(***************************************************************************)
ScanStepTaken == lineno' = lineno + 1

IsInstructionMarker(l) == l.shape = "log" /\ Len(l.words) >= 1 /\ l.words[1] = "Instruction:"

Balanced == ~underflow /\ balance = 0

\* C1: depth correctness.  For every log whose target invoke/success markers
\* are properly nested and balanced, invoke_depth is 0 after the last line
\* (every line may be the last), and no emitted instruction has its kind or
\* its payload from a line processed while invoke_depth was 0.
C1_DepthCorrect ==
    /\ (pc = "scan" /\ Balanced) => invoke_depth = 0
    /\ (pc = "scan" /\ ~underflow) => invoke_depth = balance
    /\ pc \in {"scan", "panic"} =>
          /\ Len(prov) = Len(instructions)
          /\ \A i \in 1..Len(prov) : prov[i].kindDepth >= 1 /\ prov[i].dataDepth >= 1

\* a balanced log of six lines with one invocation that emitted
C1_Witness ==
    /\ pc = "scan" /\ Balanced /\ lineno = 6 /\ exits = 1
    /\ Len(instructions) = 1 /\ log = SuccessLine(PROGRAM_ID)

\* C2: invoke_depth never goes negative, for every log: a target success
\* line seen while invoke_depth is 0 leaves depth, kind, payload and the
\* output list unchanged.
C2_DepthNeverNegative ==
    /\ [](invoke_depth >= 0)
    /\ [][(ScanStepTaken /\ IsTargetSuccess(log') /\ invoke_depth = 0) =>
            /\ invoke_depth' = 0
            /\ current_instruction' = current_instruction
            /\ program_data' = program_data
            /\ last_data_len' = last_data_len
            /\ instructions' = instructions]_vars

\* an unmatched success line right after a completed, emitting invocation
C2_Witness ==
    /\ pc = "scan" /\ underflow /\ balance = 0 - 1 /\ log = SuccessLine(PROGRAM_ID)
    /\ invoke_depth = 0 /\ current_instruction = "trade" /\ Len(instructions) = 1

\* C3: longest payload wins.  The retained program_data is a data string of
\* maximal length among the data lines seen since the latest top-level entry,
\* a later shorter data line never replaces it, and it is the string decoded
\* at top-level exit.
C3_LongestPayloadWins ==
    pc = "scan" =>
      /\ last_data_len = Len(program_data)
      /\ seen = {} => program_data = <<>>
      /\ seen # {} => /\ program_data \in seen
                      /\ \A d \in seen : Len(d) <= Len(program_data)
      /\ (invoke_depth = 0 /\ Len(prov) > 0 /\ prov[Len(prov)].span = exits) =>
            LET last == instructions[Len(instructions)]
            IN  last.info = IF last.type = "CreateToken"
                            THEN parse_create_token_data(program_data).val
                            ELSE parse_trade_data(program_data).val

\* data lines of lengths 20 and 10, the shorter one last: the longer is kept
C3_Witness ==
    /\ pc = "scan" /\ invoke_depth >= 1 /\ seen = {Short10, Short20}
    /\ log = DataLine(Short10) /\ program_data = Short20 /\ Len(program_data) = 20

\* the decoder that the kind selects succeeds on the payload
Decodes(kind, payload) ==
    \/ kind = "create" /\ parse_create_token_data(payload).tag = "Ok"
    \/ kind = "trade" /\ parse_trade_data(payload).tag = "Ok"

TopLevelExit == ScanStepTaken /\ invoke_depth = 1 /\ invoke_depth' = 0

\* C4: exactly one instruction is appended for each completed top-level
\* invocation with a recognized kind and a retained payload that decodes, at
\* the line that takes invoke_depth from 1 to 0, and none at any other line;
\* a Buy invocation with a valid trade payload and no bot wallet appends one
\* UserTrade with the payload's fields; the output is never longer than the
\* number of 1 -> 0 transitions.
C4_OnePerCompletedInvocation ==
    /\ [](pc \in {"scan", "panic"} => Len(instructions) <= exits)
    /\ [][ScanStepTaken =>
            IF TopLevelExit /\ program_data # <<>> /\ Decodes(current_instruction, program_data)
            THEN /\ Len(instructions') = Len(instructions) + 1
                 /\ SubSeq(instructions', 1, Len(instructions)) = instructions
                 /\ instructions'[Len(instructions')].type \in
                       IF current_instruction = "create" THEN {"CreateToken"}
                       ELSE {"UserTrade", "BotTrade"}
                 /\ (current_instruction = "trade" /\ program_data = TradePayloadA
                        /\ bot_wallet = None) =>
                       instructions' = Append(instructions, [type |-> "UserTrade", info |-> TradeA])
            ELSE instructions' = instructions]_vars

\* the four-line log: invoke, "Instruction: Buy" (or Sell), the trade payload, success
C4_Witness ==
    /\ pc = "scan" /\ lineno = 4 /\ exits = 1 /\ bot_wallet = None
    /\ program_data = TradePayloadA
    /\ instructions = <<[type |-> "UserTrade", info |-> TradeA]>>

\* C5: only the outermost span is classified.  An "Instruction:" marker
\* seen at depth 2 or more never changes the kind, a success line that leaves
\* the depth at 1 or more never emits, and an instruction is emitted only by
\* the success line of the outermost invocation, one at most.
C5_OnlyOutermostClassified ==
    [][ScanStepTaken =>
        /\ (invoke_depth >= 2 /\ IsInstructionMarker(log')) =>
              current_instruction' = current_instruction
        /\ invoke_depth' >= 1 => instructions' = instructions
        /\ instructions' # instructions =>
              /\ TopLevelExit /\ IsTargetSuccess(log')
              /\ Len(instructions') = Len(instructions) + 1]_vars

\* a Create marker inside a nested call of the target, after the outer Buy
C5_Witness ==
    /\ pc = "scan" /\ invoke_depth = 2 /\ log = LogLine(<<"Instruction:", "Create">>)
    /\ current_instruction = "trade" /\ program_data = TradePayloadA

\* C6: lines that are no target invoke markers, inserted where invoke_depth
\* is 0, do not change the returned instructions; invoke/success markers of
\* another program never change invoke_depth.
C6_NoiseAtDepthZeroIgnored ==
    /\ [](shadow.instructions = instructions)
    /\ [](pc = "scan" => shadow.invoke_depth = invoke_depth)
    /\ [][(ScanStepTaken /\ log'.shape \in {"invoke", "success"} /\ log'.prog # PROGRAM_ID)
            => invoke_depth' = invoke_depth]_vars

\* a line was inserted in the second scan, and an instruction was emitted after it
C6_Witness ==
    /\ pc = "scan" /\ inserted >= 1 /\ Len(instructions) = 1
    /\ prov[1].span = exits /\ lineno = 4

\* the event the callers make of an instruction, the slot aside
EventTypes(type) ==
    CASE type = "CreateToken" -> {"NewToken", "CreateToken"}
      [] type = "UserTrade" -> {"NewDevTrade", "NewUserTrade", "UserTrade"}
      [] type = "BotTrade" -> {"NewBotTrade", "BotTrade"}

\* C7: instructions are returned in completion order of the top-level
\* invocations (each new one goes to the end of the list, under a later exit
\* than the ones before it), and each caller invokes the callback exactly
\* once per instruction, in that order.
C7_CompletionOrder ==
    /\ [](\A i, j \in 1..Len(prov) : i < j => prov[i].span < prov[j].span)
    /\ [](Len(prov) = Len(instructions))
    /\ [][ScanStepTaken => \/ instructions' = instructions
                            \/ /\ Len(instructions') = Len(instructions) + 1
                               /\ SubSeq(instructions', 1, Len(instructions)) = instructions]_vars
    /\ [](pc # "dispatch" => events = <<>>)
    /\ [](pc = "dispatch" =>
            /\ Len(events) = idx /\ idx <= Len(instructions)
            /\ \A k \in 1..idx :
                  /\ events[k].type \in EventTypes(instructions[k].type)
                  /\ [events[k].info EXCEPT !.slot = 0] = instructions[k].info)

\* two instructions of different kinds, both delivered to the gRPC callback
C7_Witness ==
    /\ pc = "dispatch" /\ caller = "grpc" /\ idx = 2 /\ Len(instructions) = 2
    /\ instructions[1].type = "CreateToken" /\ instructions[2].type = "UserTrade"
    /\ events[1].type = "NewToken" /\ events[2].type = "NewDevTrade"

\* C8: a decode failure never aborts the scan (the statement of the claim;
\* a short trade payload makes parse_trade_data panic)
C8_DecodeFailureNeverAborts == pc # "panic"

\* C9: parse_trade_data returns an error for every base64 text that decodes
\* to fewer than 129 bytes (the statement of the claim; the slices panic)
C9_TruncatedTradeIsError ==
    (fn = "parse_trade_data" /\ result.tag # "None" /\ B64Decode(input).tag = "Ok"
        /\ Len(B64Decode(input).val) < 129)
    => result.tag = "Err"

\* The layout of a token-creation buffer, bounds only: the items in order
\* are the name length, the name, the symbol length, the symbol, the URI
\* length, the URI and the 96 bytes of the three keys; the first item starts
\* at 8, or at 0 in a buffer of 8 bytes or fewer.  ItemEnds(d, c, k) walks
\* the three texts from the k-th: the first item that does not fit, else the
\* place where the keys start.
TextNames == <<"name", "symbol", "URI">>

RECURSIVE Layout(_, _, _)
Layout(d, c, k) ==
    IF k > 3
    THEN [misfit |-> IF c + 96 > Len(d) THEN "Data too short for public keys" ELSE "none",
          badText |-> "none"]
    ELSE IF c + 4 > Len(d) THEN [misfit |-> TooShortForLength(TextNames[k]), badText |-> "none"]
    ELSE LET len == U32FromLE(SubSeq(d, c + 1, c + 4))
         IN  IF c + 4 + len > Len(d)
             THEN [misfit |-> TooShortFor(TextNames[k]), badText |-> "none"]
             ELSE IF \E i \in (c + 5)..(c + 4 + len) : d[i] >= 128
             THEN [Layout(d, c + 4 + len, k + 1) EXCEPT !.badText = InvalidUtf8In(TextNames[k])]
             ELSE Layout(d, c + 4 + len, k + 1)

BufferLayout(d) == Layout(d, IF Len(d) > 8 THEN 8 ELSE 0, 1)

CreateCallDone ==
    fn = "parse_create_token_data" /\ result.tag # "None" /\ B64Decode(input).tag = "Ok"

\* C10 as stated: whenever an item does not fit, parse_create_token_data
\* returns the error that names the first item that does not fit
C10_ErrorNamesFirstMisfit ==
    CreateCallDone =>
      LET d == B64Decode(input).val
          lay == BufferLayout(d)
      IN  /\ result.tag # "Panic"
          /\ lay.misfit # "none" => (result.tag = "Err" /\ result.msg = lay.misfit)
          /\ Len(d) < 116 => result.tag = "Err"

\* C10, amended: whenever an item does not fit, parse_create_token_data
\* returns an error and never reads out of bounds; the error names the first
\* item that does not fit, unless a text before that item fits and is not
\* UTF-8: then it is the invalid-UTF-8 error of the first such text.  Every
\* buffer shorter than 116 bytes is rejected.
C10_BoundsChecked ==
    CreateCallDone =>
      LET d == B64Decode(input).val
          lay == BufferLayout(d)
      IN  /\ result.tag # "Panic"
          /\ lay.misfit # "none" =>
                /\ result.tag = "Err"
                /\ result.msg = IF lay.badText # "none" THEN lay.badText ELSE lay.misfit
          /\ Len(d) < 116 => result.tag = "Err"

\* a buffer of 115 bytes with three empty texts: only the keys do not fit
C10_Witness ==
    /\ CreateCallDone /\ Len(B64Decode(input).val) = 115
    /\ result.tag = "Err" /\ result.msg = "Data too short for public keys"

\* the trade's user is the configured bot wallet, byte for byte
IsBotUser(info) == bot_wallet.some /\ bot_wallet.key = info.user

\* C11: bot attribution.  A successfully decoded trade is emitted as BotTrade
\* if and only if a bot wallet was supplied and equals the trade's user, and
\* as UserTrade in every other case; with no bot wallet there is no BotTrade
\* in the output, whatever the log.
C11_BotAttribution ==
    /\ [](\A k \in 1..Len(instructions) :
            instructions[k].type \in {"UserTrade", "BotTrade"} =>
               (instructions[k].type = "BotTrade" <=> IsBotUser(instructions[k].info)))
    /\ [](bot_wallet = None => \A k \in 1..Len(instructions) : instructions[k].type # "BotTrade")
    /\ [][(TopLevelExit /\ current_instruction = "trade" /\ program_data # <<>>
              /\ parse_trade_data(program_data).tag = "Ok") =>
            LET info == parse_trade_data(program_data).val
            IN  instructions' = Append(instructions,
                    [type |-> IF IsBotUser(info) THEN "BotTrade" ELSE "UserTrade",
                     info |-> info])]_vars

\* the bot wallet's own sale, emitted as BotTrade
C11_Witness ==
    /\ pc = "scan" /\ bot_wallet = Some(Key(2))
    /\ instructions = <<[type |-> "BotTrade", info |-> TradeB]>>

\* a bot wallet is configured and the trade of another user is a UserTrade
C11_WitnessOtherUser ==
    /\ pc = "scan" /\ bot_wallet = Some(Key(2))
    /\ instructions = <<[type |-> "UserTrade", info |-> TradeA]>>

(***************************************************************************)
(* The callers' loops.  Every instruction parse_instruction returns makes  *)
(* one callback, so events[k] is the event of instructions[k].             *)
(***************************************************************************)
Creates(k) == {i \in 1..k : instructions[i].type = "CreateToken"}

\* the user of the first / of the latest CreateToken among the first k instructions
FirstCreator(k) ==
    IF Creates(k) = {} THEN None
    ELSE Some(instructions[CHOOSE i \in Creates(k) : \A j \in Creates(k) : i <= j].info.user)

LatestCreator(k) ==
    IF Creates(k) = {} THEN None
    ELSE Some(instructions[CHOOSE i \in Creates(k) : \A j \in Creates(k) : i >= j].info.user)

DevOrUser(info, dev) == IF Some(info.user) = dev THEN "NewDevTrade" ELSE "NewUserTrade"

\* C12 as stated: in process_pumpfun_transaction, devAddress is the user of
\* the first CreateToken of the transaction and keeps that value: a later
\* CreateToken of another user does not change it, and the UserTrades after
\* it are classified against the first creator
C12_FirstCreateWins ==
    (pc = "dispatch" /\ caller = "grpc") =>
        /\ dev_address = FirstCreator(idx)
        /\ \A k \in 1..idx : instructions[k].type = "UserTrade" =>
              events[k].type = DevOrUser(instructions[k].info, FirstCreator(k - 1))

\* C12, amended: in process_pumpfun_transaction, devAddress is the user of
\* the latest CreateToken processed so far in the transaction: a second
\* CreateToken with a different user replaces it, so a later UserTrade by
\* the first creator is NewUserTrade and one by the second creator is
\* NewDevTrade
C12_LatestCreateWins ==
    (pc = "dispatch" /\ caller = "grpc") =>
        /\ dev_address = LatestCreator(idx)
        /\ \A k \in 1..idx : instructions[k].type = "UserTrade" =>
              events[k].type = DevOrUser(instructions[k].info, LatestCreator(k - 1))

\* two tokens created by different users, then a trade of the first creator
C12_Witness ==
    /\ pc = "dispatch" /\ caller = "grpc" /\ idx = 3
    /\ instructions[1] = [type |-> "CreateToken", info |-> CreateA]
    /\ instructions[2] = [type |-> "CreateToken", info |-> CreateB]
    /\ instructions[3] = [type |-> "UserTrade", info |-> TradeA]
    /\ dev_address = Some(CreateB.user) /\ events[3].type = "NewUserTrade"

\* C13: dev attribution on every path that classifies instructions: a
\* UserTrade is delivered as NewDevTrade if and only if its user is the
\* devAddress at that point, and as NewUserTrade otherwise (the statement of
\* the claim; the websocket loop delivers every UserTrade as NewUserTrade)
C13_DevAttribution ==
    pc = "dispatch" =>
        \A k \in 1..idx : instructions[k].type = "UserTrade" =>
            events[k].type = DevOrUser(instructions[k].info, LatestCreator(k - 1))

\* C14: a BotTrade is always delivered as NewBotTrade, whatever devAddress
\* is, also when the bot wallet created a token earlier in the transaction,
\* and processing a BotTrade leaves devAddress unchanged.
C14_BotTradeIsNewBotTrade ==
    /\ [](pc = "dispatch" =>
            \A k \in 1..idx : instructions[k].type = "BotTrade" <=> events[k].type = "NewBotTrade")
    /\ [][(pc = "dispatch" /\ idx' = idx + 1 /\ instructions[idx + 1].type = "BotTrade") =>
            /\ dev_address' = dev_address
            /\ Len(events') = Len(events) + 1
            /\ events'[Len(events')].type = "NewBotTrade"
            /\ events'[Len(events')].info.user = instructions[idx + 1].info.user]_vars

\* the bot wallet creates a token and then trades it, on the gRPC path
C14_Witness ==
    /\ pc = "dispatch" /\ caller = "grpc" /\ idx = 2 /\ bot_wallet = Some(CreateB.user)
    /\ instructions[1] = [type |-> "CreateToken", info |-> CreateB]
    /\ instructions[2] = [type |-> "BotTrade", info |-> TradeB]
    /\ dev_address = Some(TradeB.user) /\ events[2].type = "NewBotTrade"

\* C15: slot stamping.  The records parse_instruction returns have slot 0,
\* and every event delivered to the callback carries the slot of its
\* transaction (the statement of the claim; the websocket loop hands the
\* records on as they are, with slot 0)
C15_SlotStamped ==
    pc = "dispatch" =>
        /\ \A k \in 1..Len(instructions) : instructions[k].info.slot = 0
        /\ \A k \in 1..idx : events[k].info.slot = slot

\* C16: concurrent calls on independent transactions need no coordination.
\* Under every interleaving of the workers' steps, the events a worker has
\* delivered are a prefix of the events its call delivers when run alone,
\* and are exactly those events once the call has returned.
C16_WorkersIndependent ==
    \A w \in Workers :
        /\ Len(workers[w].events) <= Len(workers[w].alone)
        /\ workers[w].events = SubSeq(workers[w].alone, 1, Len(workers[w].events))
        /\ workers[w].pc = "done" => workers[w].events = workers[w].alone

\* worker 1 created a token as A and delivered A's trade as NewDevTrade
\* while worker 2, in the middle of its loop, had created a token as B
C16_Witness ==
    /\ workers[1].pc = "done" /\ Len(workers[1].events) = 2
    /\ workers[1].events[1].type = "NewToken" /\ workers[1].events[1].info.user = CreateA.user
    /\ workers[1].events[2].type = "NewDevTrade"
    /\ workers[2].pc = "loop" /\ workers[2].idx = 1
    /\ workers[2].events[1].type = "NewToken" /\ workers[2].events[1].info.user = CreateB.user

(***************************************************************************)
(* Pricing.  The claims are stated on the numbers themselves, with the     *)
(* Big operations; the code computes in u64 and u128.                      *)
(***************************************************************************)
BuyPriceDone == fn = "get_buy_price" /\ result.tag # "None"

\* floor(virtualSolReserves * virtualTokenReserves / (virtualSolReserves + amount)) + 1
QuoteR(amount, t) ==
    BigAdd(BigDiv(BigMul(U64ToLE(t.virtual_sol_reserves), U64ToLE(t.virtual_token_reserves)),
                  BigAdd(U64ToLE(t.virtual_sol_reserves), U64ToLE(amount))),
           BigOf(1))

\* C17: buy quote.  For amount > 0 and all 64-bit reserves, get_buy_price
\* returns min(virtualTokenReserves - (floor(vSol * vToken / (vSol + amount)) + 1),
\* realTokenReserves), no intermediate overflowing; for amount = 0 it
\* returns 0 (the statement of the claim; with virtualTokenReserves = 0 the
\* subtraction of line 193 overflows)
C17_BuyQuote ==
    BuyPriceDone =>
        IF input.amount = U64(0) THEN result = Ok(U64(0))
        ELSE LET t == input.trade_info
                 r == QuoteR(input.amount, t)
             IN  /\ result.tag = "Ok"
                 /\ BigLeq(r, U64ToLE(t.virtual_token_reserves))
                 /\ BigEq(U64ToLE(result.val),
                          BigMin(BigSub(U64ToLE(t.virtual_token_reserves), r),
                                 U64ToLE(t.real_token_reserves)))

\* C18: rounding favors the pool.  For amount > 0 and out the quote
\* returned, (virtualTokenReserves - out) * (virtualSolReserves + amount) is
\* at least virtualSolReserves * virtualTokenReserves (the statement of the
\* claim; the wrapped difference of line 193 lets the quote exceed
\* virtualTokenReserves)
C18_RoundingFavorsPool ==
    (BuyPriceDone /\ input.amount # U64(0) /\ result.tag = "Ok") =>
        LET t == input.trade_info
            vs == U64ToLE(t.virtual_sol_reserves)
            vt == U64ToLE(t.virtual_token_reserves)
            out == U64ToLE(result.val)
        IN  /\ BigLeq(out, vt)
            /\ BigLeq(BigMul(vs, vt), BigMul(BigSub(vt, out), BigAdd(vs, U64ToLE(input.amount))))

\* floor(amount * bps / 10000)
SlippagePart(amount, bps) == BigDiv(BigMul(U64ToLE(amount), U64ToLE(bps)), BigOf(10000))

BpsOf(opt) == IF opt.some THEN opt.key ELSE U64(3000)

\* C19: slippage bounds.  For all amount and bps, calculate_with_slippage_buy
\* is amount + (amount * bps) / 10000 and calculate_with_slippage_sell is
\* amount - (amount * bps) / 10000 with truncating division, so for
\* bps <= 10000 the sell bound is in [0, amount] and the buy bound in
\* [amount, 2 * amount]; get_buy_amount_with_slippage agrees with
\* calculate_with_slippage_buy, with 3000 bps when no slippage is given (the
\* statement of the claim; amount * bps and the sum overflow u64)
C19_SlippageBounds ==
    /\ (fn = "calculate_with_slippage_buy" /\ result.tag # "None") =>
          LET a == U64ToLE(input.amount)
          IN  /\ result.tag = "Ok"
              /\ BigEq(U64ToLE(result.val), BigAdd(a, SlippagePart(input.amount, input.basis_points)))
              /\ BigLeq(U64ToLE(input.basis_points), BigOf(10000)) =>
                    /\ BigLeq(a, U64ToLE(result.val))
                    /\ BigLeq(U64ToLE(result.val), BigAdd(a, a))
    /\ (fn = "calculate_with_slippage_sell" /\ result.tag # "None") =>
          LET a == U64ToLE(input.amount)
              part == SlippagePart(input.amount, input.basis_points)
          IN  /\ result.tag = "Ok"
              /\ BigLeq(part, a)
              /\ BigEq(U64ToLE(result.val), BigSub(a, part))
              /\ BigLeq(U64ToLE(input.basis_points), BigOf(10000)) => BigLeq(U64ToLE(result.val), a)
    /\ (fn = "get_buy_amount_with_slippage" /\ result.tag # "None") =>
          LET buy == calculate_with_slippage_buy(input.amount_sol,
                                                 BpsOf(input.slippage_basis_points),
                                                 input.overflow_checks)
          IN  result.tag = "Ok" /\ buy.tag = "Ok" /\ result.val = buy.val

(***************************************************************************)
(* Encoding and decoding.                                                  *)
(***************************************************************************)
InstructionDecoded == fn = "Create::data" /\ result # NoResult

RecordDecoded == fn = "CreateTokenInfo::serialize" /\ result # NoResult

\* C20: round trip.  The bytes Create::data writes for a name, symbol and uri
\* are decoded by parse_create_token_data with success, into a record with
\* the same name, symbol and uri, and the payer as its address (the
\* statement of the claim)
C20_RoundTrip ==
    InstructionDecoded =>
        /\ result.tag = "Ok"
        /\ result.val.name = input._name
        /\ result.val.symbol = input._symbol
        /\ result.val.uri = input._uri
        /\ result.val.user = input.payer_pubkey

\* C20 as amended: in the bytes Create::data writes, the decoder's three
\* text reads succeed and give back the name, symbol and uri, but what is
\* left is the 4-byte length and the base58 text of the payer, fewer than the
\* 96 bytes of three addresses, and the decoding fails with "Data too short
\* for public keys"; the Borsh bytes of a CreateTokenInfo are decoded with
\* success into the same record with slot 0
C20_RoundTripTexts ==
    /\ InstructionDecoded =>
          LET bytes == Create_data(input)
              name == ReadString(bytes, 8, "name")
              symbol == ReadString(bytes, name.val.cursor, "symbol")
              uri == ReadString(bytes, symbol.val.cursor, "URI")
          IN  /\ name.tag = "Ok" /\ name.val.text = input._name
              /\ symbol.tag = "Ok" /\ symbol.val.text = input._symbol
              /\ uri.tag = "Ok" /\ uri.val.text = input._uri
              /\ Len(bytes) - uri.val.cursor = 4 + Len(Base58Encode(input.payer_pubkey))
              /\ Len(bytes) - uri.val.cursor < 96
              /\ result = Err("Data too short for public keys")
    /\ RecordDecoded => result = Ok([input EXCEPT !.slot = 0])

\* C20: the create instruction of "ABC", "X", "http://u" has been encoded and
\* the decoder has refused its bytes
C20_Witness ==
    /\ InstructionDecoded
    /\ input._name = CreateA.name /\ input._symbol = CreateA.symbol /\ input._uri = CreateA.uri
    /\ result = Err("Data too short for public keys")
(***************************************************************************)
(* The scanner, continued.                                                 *)
(***************************************************************************)
\* C21: top-level reset.  A target invoke line that takes invoke_depth from
\* 0 to 1 resets the kind to Unclassified, the payload to empty and the
\* payload length to 0; one that takes it from n >= 1 to n + 1 leaves the
\* three unchanged; so the payload of an emitted instruction is a data line
\* of its own span, between its top-level invoke and its success line.
C21_TopLevelReset ==
    [][(ScanStepTaken /\ IsTargetInvoke(log')) =>
          /\ invoke_depth' = invoke_depth + 1
          /\ invoke_depth = 0 =>
                /\ current_instruction' = "none"
                /\ program_data' = <<>>
                /\ last_data_len' = 0
          /\ invoke_depth >= 1 =>
                /\ current_instruction' = current_instruction
                /\ program_data' = program_data
                /\ last_data_len' = last_data_len
          /\ instructions' = instructions]_vars
    /\ [][(ScanStepTaken /\ Len(instructions') > Len(instructions)) =>
            program_data' \in seen']_vars

\* the invoke line of a second top-level invocation, after a first one that
\* emitted: kind and payload of the first are gone
C21_Witness ==
    /\ pc = "scan" /\ exits = 1 /\ Len(instructions) = 1 /\ log = InvokeLine(PROGRAM_ID)
    /\ invoke_depth = 1 /\ current_instruction = "none" /\ program_data = <<>>
    /\ last_data_len = 0
MarkerRead == ScanStepTaken /\ invoke_depth = 1 /\ ContainsInstruction(log')

NamesTrade(l) == ContainsWord(l, "Buy") \/ ContainsWord(l, "Sell")

\* C22: instruction-kind rule.  At depth 1 an "Instruction:" line sets the
\* kind to Create if it contains "Create" and to Trade if it contains "Buy"
\* or "Sell", the two tests being independent: a line with "Buy" or "Sell"
\* sets Trade whether or not it also contains "Create" (the statement of
\* the claim)
C22_KindRuleIndependent ==
    [][MarkerRead =>
          /\ NamesTrade(log') => current_instruction' = "trade"
          /\ (ContainsWord(log', "Create") /\ ~NamesTrade(log')) =>
                current_instruction' = "create"]_vars

\* C22 as amended: at depth 1 an "Instruction:" line sets the kind to Create
\* if it contains "Create"; otherwise to Trade if it contains "Buy" or
\* "Sell"; otherwise the kind is unchanged.  A line with "Create" and
\* "Buy" sets Create.  Depth, payload and output list are unchanged.
C22_KindRule ==
    [][MarkerRead =>
          /\ current_instruction' =
                IF ContainsWord(log', "Create") THEN "create"
                ELSE IF NamesTrade(log') THEN "trade"
                ELSE current_instruction
          /\ invoke_depth' = invoke_depth
          /\ program_data' = program_data
          /\ last_data_len' = last_data_len
          /\ instructions' = instructions]_vars

\* a marker with "Create" and "Buy" read after a "Sell" marker: the kind
\* went from Trade to Create
C22_Witness ==
    /\ pc = "scan" /\ invoke_depth = 1 /\ lineno = 3
    /\ log = LogLine(<<"Instruction:", "Create", "Buy">>)
    /\ current_instruction = "create" /\ kindDepth = 1
\* C23: a completed top-level invocation produces nothing when its kind is
\* still Unclassified at exit, or no data line was retained, or the retained
\* payload does not decode: the output list is unchanged by the invocation
\* and no error is reported (the scan goes on)
C23_NothingProduced ==
    [][(TopLevelExit /\ IsTargetSuccess(log')
          /\ (\/ current_instruction = "none"
              \/ program_data = <<>>
              \/ ~Decodes(current_instruction, program_data))) =>
            /\ instructions' = instructions
            /\ pc' = "scan"]_vars
(***************************************************************************)
(* The decoders, continued.                                                *)
(***************************************************************************)
TradeCallDone ==
    fn = "parse_trade_data" /\ result.tag # "None" /\ B64Decode(input).tag = "Ok"

\* C24: trade record layout.  For every decoded buffer of at least 129
\* bytes parse_trade_data succeeds, with mint = bytes 8..40, solAmount and
\* tokenAmount the little-endian u64 at 40..48 and 48..56, isBuy = (byte 56
\* is not 0), user = bytes 57..89, timestamp the little-endian i64 at
\* 89..97, the four reserves the little-endian u64 at 97..105, 105..113,
\* 113..121 and 121..129, and slot = 0; the first 8 bytes and the bytes
\* after 129 have no influence on the record.
C24_TradeLayout ==
    (TradeCallDone /\ Len(B64Decode(input).val) >= 129) =>
        LET d == B64Decode(input).val
            t == result.val
        IN  /\ result.tag = "Ok"
            /\ t.slot = 0
            /\ t.mint = SubSeq(d, 9, 40)
            /\ U64ToLE(t.sol_amount) = SubSeq(d, 41, 48)
            /\ U64ToLE(t.token_amount) = SubSeq(d, 49, 56)
            /\ t.is_buy = (d[57] # 0)
            /\ t.user = SubSeq(d, 58, 89)
            /\ I64ToLE(t.timestamp) = SubSeq(d, 90, 97)
            /\ U64ToLE(t.virtual_sol_reserves) = SubSeq(d, 98, 105)
            /\ U64ToLE(t.virtual_token_reserves) = SubSeq(d, 106, 113)
            /\ U64ToLE(t.real_sol_reserves) = SubSeq(d, 114, 121)
            /\ U64ToLE(t.real_token_reserves) = SubSeq(d, 122, 129)
            /\ result = parse_trade_data(B64Encode(ZeroPrefix \o SubSeq(d, 9, 129)))

\* a buffer with the discriminator in front, the flag byte 2 and bytes after
\* the record has been decoded as a buy
C24_Witness ==
    /\ TradeCallDone /\ result.tag = "Ok" /\ result.val.is_buy
    /\ LET d == B64Decode(input).val
       IN  Len(d) > 129 /\ d[57] = 2 /\ SubSeq(d, 1, 8) = Discriminator
\* C25: payload retention at every depth.  Every "Program data: " line read
\* while invoke_depth >= 1, at depth 1 or inside a nested call of the
\* target, replaces the retained payload if and only if it is longer; a data
\* line of a nested call that is the longest of the top-level span is the
\* payload decoded for the kind of the outer invocation.
C25_RetentionAtEveryDepth ==
    /\ [][(ScanStepTaken /\ invoke_depth >= 1 /\ StartsWithData(log')) =>
            /\ program_data' = IF Len(log'.data) > last_data_len
                               THEN log'.data ELSE program_data
            /\ last_data_len' = Len(program_data')
            /\ current_instruction' = current_instruction]_vars
    /\ [][(ScanStepTaken /\ Len(instructions') > Len(instructions)) =>
            /\ \A d \in seen' : Len(d) <= Len(program_data')
            /\ Decodes(current_instruction', program_data')
            /\ instructions'[Len(instructions')].info =
                  IF current_instruction' = "create"
                  THEN parse_create_token_data(program_data').val
                  ELSE parse_trade_data(program_data').val]_vars

\* a Buy invocation with a short data line of its own and a longer one
\* inside a nested call: the nested line's trade was emitted
C25_Witness ==
    /\ pc = "scan" /\ invoke_depth = 0 /\ Len(instructions) = 1
    /\ seen = {Short20, TradePayloadA} /\ program_data = TradePayloadA
    /\ prov[1].dataDepth = 2 /\ prov[1].kindDepth = 1
    /\ instructions[1].info = TradeA
BothPathsDone ==
    fn \in PathRecords /\ result.manual # NoResult /\ result.struct # NoResult

\* C26: the two decode paths agree.  For every buffer b of at least 8 bytes
\* the cursor decoder applied to b and the struct decoder applied to b[8..]
\* both fail, or both succeed with equal values of every payload field
\* (every field but slot).
C26_DecodePathsAgree ==
    BothPathsDone =>
        /\ (result.manual.tag = "Ok") <=> (result.struct.tag = "Ok")
        /\ (result.manual.tag = "Ok" /\ result.struct.tag = "Ok") =>
              [result.manual.val EXCEPT !.slot = 0] = [result.struct.val EXCEPT !.slot = 0]
(***************************************************************************)
(* The scanners of logs_events.rs.                                         *)
(***************************************************************************)
\* what the struct decoders make of one line of the log
EventSliceOf(l) ==
    LET dec == B64Decode(l.data)
    IN  IF StartsWithData(l) /\ dec.tag = "Ok" /\ Len(dec.val) >= 8
        THEN Ok(Slice(dec.val, 8, Len(dec.val))) ELSE Err("no slice")

CreateOfLine(l) ==
    IF EventSliceOf(l).tag = "Ok" THEN CreateTokenInfo_from_bytes(EventSliceOf(l).val)
    ELSE Err("no slice")

TradeOfLine(l) ==
    IF EventSliceOf(l).tag = "Ok" THEN TradeInfo_from_bytes(EventSliceOf(l).val)
    ELSE Err("no slice")

RayOfLine(l) ==
    IF RayMatches(l) /\ B64Decode(RayCaptured(l)).tag = "Ok"
    THEN TradeInfo_from_bytes(B64Decode(RayCaptured(l)).val) ELSE Err("no match")

CreateLines == {i \in 1..Len(input) : CreateOfLine(input[i]).tag = "Ok"}

TradeLines == {i \in 1..Len(input) : TradeOfLine(input[i]).tag = "Ok"}

RayLines == {i \in 1..Len(input) : RayOfLine(input[i]).tag = "Ok"}

LastOf(S) == CHOOSE i \in S : \A j \in S : j <= i

FirstOf(S) == CHOOSE i \in S : \A j \in S : i <= j

PumpfunReturned == pc = "returned" /\ fn = "PumpfunEvent::parse_logs"

RaydiumReturned == pc = "returned" /\ fn = "RaydiumEvent::parse_logs"

\* C27: tie-break of the two scanners.  PumpfunEvent::parse_logs returns,
\* for the create slot and for the trade slot, the record of the last line
\* in log order that decodes as a creation, respectively as a trade;
\* RaydiumEvent::parse_logs returns the record of the earliest matching line
\* that decodes (the statement of the claim)
C27_TieBreak ==
    /\ PumpfunReturned =>
          /\ result.create_info = IF CreateLines = {} THEN NoVal
                                  ELSE CreateOfLine(input[LastOf(CreateLines)]).val
          /\ result.trade_info = IF TradeLines = {} THEN NoVal
                                 ELSE TradeOfLine(input[LastOf(TradeLines)]).val
    /\ RaydiumReturned =>
          result = IF RayLines = {} THEN NoVal ELSE RayOfLine(input[FirstOf(RayLines)]).val

\* C27 as amended: the create slot holds the record of the last line that
\* decodes as a creation; the trade slot holds the record of the last line
\* that decodes as a trade, the line taken for the create slot excepted (a
\* line is tried as a trade only if it was not taken as the creation);
\* RaydiumEvent::parse_logs returns the record of the earliest matching line
\* that decodes.
C27_TieBreakPerLine ==
    /\ PumpfunReturned =>
          LET trades == IF CreateLines = {} THEN TradeLines
                        ELSE TradeLines \ {LastOf(CreateLines)}
          IN  /\ result.create_info = IF CreateLines = {} THEN NoVal
                                      ELSE CreateOfLine(input[LastOf(CreateLines)]).val
              /\ result.trade_info = IF trades = {} THEN NoVal
                                     ELSE TradeOfLine(input[LastOf(trades)]).val
    /\ RaydiumReturned =>
          result = IF RayLines = {} THEN NoVal ELSE RayOfLine(input[FirstOf(RayLines)]).val

\* a log of two trades followed by a line that decodes both ways: the last
\* line was taken as the creation and the trade is the second line's
C27_Witness ==
    /\ PumpfunReturned
    /\ input = <<DataLine(EventTradeA), DataLine(EventTradeB), DataLine(EventBoth)>>
    /\ TradeLines = {1, 2, 3} /\ CreateLines = {3}
    /\ result.create_info = CreateOfLine(input[3]).val
    /\ result.trade_info = TradeOfLine(input[2]).val
    /\ result.trade_info.user = TradeB.user
MalformedLine(l) ==
    \/ /\ fn = "PumpfunEvent::parse_logs" /\ StartsWithData(l)
       /\ (B64Decode(l.data).tag # "Ok" \/ Len(B64Decode(l.data).val) < 8)
    \/ /\ fn = "RaydiumEvent::parse_logs" /\ RayMatches(l)
       /\ B64Decode(RayCaptured(l)).tag # "Ok"

\* C28: malformed payloads are recoverable in both scanners.  A line that
\* matches the envelope but whose text is not valid base64, or (Pumpfun)
\* decodes to fewer than 8 bytes, is a decode error of that line only: the
\* scanner keeps what it holds, goes on with the remaining lines and returns
\* normally.
C28_MalformedRecoverable ==
    /\ [][(pc = "events" /\ lineno' = lineno + 1 /\ MalformedLine(log')) =>
            (pc' = "events" /\ result' = result)]_vars
    /\ [](fn \in {"PumpfunEvent::parse_logs", "RaydiumEvent::parse_logs"} => pc # "panic")
(***************************************************************************)
(* The scanner: logs that end inside an invocation.  Every state of the    *)
(* scan is the state after the last line of some log.                      *)
(***************************************************************************)
IsPrefix(a, b) == Len(a) <= Len(b) /\ SubSeq(b, 1, Len(a)) = a

\* C29: an unterminated top-level invocation emits nothing.  While
\* invoke_depth >= 1, because the log ends there or a nested target invoke
\* is never matched by a success line, no line appends an instruction,
\* whatever kind and payload are retained; every instruction in the list
\* comes from a top-level invocation completed before, one per invocation,
\* and the instructions emitted earlier stay in the list.
C29_UnterminatedEmitsNothing ==
    /\ [][(ScanStepTaken /\ invoke_depth' >= 1) => instructions' = instructions]_vars
    /\ [][(ScanStepTaken /\ pc' = "scan") => IsPrefix(instructions, instructions')]_vars
    /\ [](pc = "scan" =>
            /\ Len(prov) = Len(instructions)
            /\ \A i \in 1..Len(prov) : prov[i].span <= exits
            /\ \A i, j \in 1..Len(prov) : i < j => prov[i].span < prov[j].span)

\* the log ends on a nested invoke that is never matched, inside a second
\* Buy invocation holding a payload that decodes: only the first
\* invocation's trade is in the list
C29_Witness ==
    /\ pc = "scan" /\ lineno = 8 /\ log = InvokeLine(PROGRAM_ID) /\ invoke_depth = 2
    /\ exits = 1 /\ Len(instructions) = 1
    /\ current_instruction = "trade" /\ seen # {}
    /\ Decodes(current_instruction, program_data)
(***************************************************************************)
(* Pricing, continued.                                                     *)
(***************************************************************************)
\* C30: get_buy_price never underflows or wraps.  For every amount > 0 and
\* all 64-bit reserves, zero reserves included, the divisor
\* virtualSolReserves + amount is not zero, floor(virtualSolReserves *
\* virtualTokenReserves / (virtualSolReserves + amount)) + 1 is at most
\* virtualTokenReserves, so the subtraction does not go below zero, the
\* difference fits 64 bits, and the result is at most
\* min(virtualTokenReserves, realTokenReserves).
C30_NeverUnderflows ==
    (BuyPriceDone /\ input.amount # U64(0)) =>
        LET t == input.trade_info
            vt == U64ToLE(t.virtual_token_reserves)
            i == BigAdd(U64ToLE(t.virtual_sol_reserves), U64ToLE(input.amount))
        IN  /\ ~BigEq(i, BigOf(0))
            /\ BigLeq(QuoteR(input.amount, t), vt)
            /\ result.tag = "Ok"
            /\ Fits(BigSub(vt, QuoteR(input.amount, t)), 8)
            /\ BigLeq(U64ToLE(result.val), BigMin(vt, U64ToLE(t.real_token_reserves)))
=============================================================================
